---- MODULE Spec2Model ----
(***************************************************************************)
(* Moneybags: the spreadsheet import (validate_import,                     *)
(* import_budget_and_transactions, _ensure_import_payee) over the store    *)
(* kept by database_manager.py, together with the budget operations of     *)
(* business_logic.py that write the same tables.                           *)
(*                                                                         *)
(* The store is the five tables of database_model.py.  A row is a record;  *)
(* a table is the set of its rows.  Row ids come from generate_uid(),      *)
(* modelled as an id no row of the table carries.  Timestamps are readings *)
(* of a clock that never runs backwards.                                   *)
(* Every request handler is synchronous from its first storage call to its *)
(* return, so a handler is one atomic step.                                *)
(***************************************************************************)
EXTENDS Integers, Sequences, FiniteSets, TLC

\* ------------------------------------------------------------------ bounds
MaxMonth     == 2   \* months 1..MaxMonth occur in workbooks and requests
MaxAmount    == 1   \* amounts 1..MaxAmount occur in workbooks
MaxBundle    == 2   \* longest list of bundled amounts in an actuals cell
MaxSheetCats == 2   \* most categories in one parsed workbook
MaxCells     == 2   \* most month cells (budget + actuals) in one workbook
NumNames     == 2   \* sheet category names 1..NumNames
MaxRows      == 4   \* most rows the store holds besides the categories
MaxTime      == 1   \* the clock reads 0..MaxTime
MaxFault     == 2   \* a transient storage fault hits storage call 1..MaxFault
MaxUid       == 2   \* generated ids of a table are 1..MaxUid
MaxTemplates == 4   \* rows of the template table on the template page
MaxTemplateId == 5  \* and the ids generated for them
MaxConfigItems == 2 \* keys in one update_configuration request
ConfigTick   == 150 \* seconds between two readings of the clock
MaxConfigClock == 450 \* the clock runs from 0 to MaxConfigClock
MaxLedgerRows == 3  \* rows of the ledger's tables other than categories
MaxLedgerFault == 4 \* a storage fault hits storage call 1..MaxLedgerFault

\* ------------------------------------------------------- program constants
MAX_RETRIES == 3
RETRY_DELAY == 1
MIN_MONTH == 1
MAX_MONTH == 12
MIN_YEAR  == 1900
MAX_YEAR  == 2100
ImportYear == 2024

Types           == {"income", "expenses"}
ImportPayeeName == "Import - Google Sheets"
NoComment       == "None"      \* SQL NULL in a comment column
CACHE_TIMEOUT   == 300         \* seconds
NoTime          == 0 - 1       \* None in _cache_timestamp
NoPayee         == 0           \* SQL NULL in transactions.payee_id

\* ----------------------------------------------------------- input domains
Months      == 1..MaxMonth
Amounts     == 1..MaxAmount
SheetNames  == 1..NumNames
Years       == {ImportYear}
\* ids a request may name: the two stored categories and one that is not stored
CategoryIds == {1, 2, 3}
StoredCategories ==
    { [id |-> 1, name |-> "Salary",  type |-> "income"],
      [id |-> 2, name |-> "Housing", type |-> "expenses"] }

BudgetDicts  == UNION { [D -> Amounts] : D \in SUBSET Months }
AmountLists  == UNION { [1..n -> Amounts] : n \in 1..MaxBundle }
ActualsDicts == UNION { [D -> AmountLists] : D \in SUBSET Months }

Cells(c) == Cardinality(DOMAIN c.budget) + Cardinality(DOMAIN c.actuals)

\* the section a sheet row stands in: odd rows under Inntekter, even under Utgifter
SheetType(name) == IF name % 2 = 1 THEN "income" ELSE "expenses"

\* a parsed category as the parser returns it: it has budget or actuals data
SheetCategories ==
    { c \in [name : SheetNames, type : Types,
             budget : BudgetDicts, actuals : ActualsDicts] :
        c.type = SheetType(c.name) /\ Cells(c) \in 1..MaxCells }

RECURSIVE TotalCells(_)
TotalCells(cats) ==
    IF cats = <<>> THEN 0 ELSE Cells(Head(cats)) + TotalCells(Tail(cats))

\* the value of parse_excel_file: {"year": ..., "sheet_categories": [...]}
ParsedInputs ==
    { [year |-> y, sheet_categories |-> cs] :
        y \in Years,
        cs \in { s \in UNION { [1..n -> SheetCategories] : n \in 1..MaxSheetCats } :
                   /\ TotalCells(s) <= MaxCells
                   /\ \A i \in DOMAIN s : s[i].name = i } }

\* category_mapping: sheet category name -> category id
Mappings == UNION { [D -> CategoryIds] : D \in SUBSET SheetNames }

VARIABLES
    categories,     \* moneybags_categories
    payees,         \* moneybags_payees
    templates,      \* moneybags_budget_templates
    entries,        \* moneybags_budget_entries
    transactions,   \* moneybags_transactions
    parsed_data,    \* the parse result the client holds for this import run
    category_mapping, \* the mapping the client sends with it
    last,           \* the last completed call: the handler, what it raised, and
                    \* what it returned (its counters so far when it raised)
    validated,      \* the report of validate_import the client acts on
    cell_value,     \* a cell of the sheet: None, or its text (str(cell_value))
    row_num,        \* the sheet row of the cell
    col_name,       \* the sheet column of the cell
    written,        \* the addends the user typed into the cell, when it was
                    \* typed as a sum
    extracted,      \* what _extract_amounts_from_formula made of the cell
    workbook,       \* the workbook of the uploaded file: its layout and the
                    \* month cells of its category blocks
    parse_result,   \* what parse_excel_file made of the workbook
    column_c,       \* column C of a Hovedark sheet, row by row: a section
                    \* marker, the name of a category row, or something else
    sections,        \* the marker rows _parse_hovedark_format located in it
                    \* and the type it gave each category row
    retry,    \* a call of execute_with_retry in progress
    trends,    \* a call of calculate_category_trends: its data and its result
    config    \* the configuration table, its cache in business_logic and the last call

tables == <<categories, payees, templates, entries, transactions>>
\* what the handlers of the import and budget routes never touch
aside  == <<validated, cell_value, row_num, col_name, written, extracted,
            workbook, parse_result, column_c, sections,
            retry,
            trends,
            config>>
vars   == <<categories, payees, templates, entries, transactions,
            parsed_data, category_mapping, last, validated,
            cell_value, row_num, col_name, written, extracted,
            workbook, parse_result, column_c, sections,
            retry,
            trends,
            config>>

\* the store as one value, threaded through the storage calls of a handler
Store ==
    [categories |-> categories, payees |-> payees, templates |-> templates,
     entries |-> entries, transactions |-> transactions]

\* ------------------------------------------------------------------- utils
\* generate_uid(): an id no row of the table carries
generate_uid(rows) ==
    LET used == { r.id : r \in rows }
    IN  IF used = {} THEN 1 ELSE 1 + (CHOOSE i \in used : \A j \in used : j <= i)

empty_to_none(value) ==
    IF value = NoComment \/ value = "" \/ value = " " THEN NoComment ELSE value

validate_month(month) == month >= MIN_MONTH /\ month <= MAX_MONTH

validate_year(year) == year >= MIN_YEAR /\ year <= MAX_YEAR

\* keys of a dict in the order the parser inserted them (ascending months)
RECURSIVE KeysInOrder(_)
KeysInOrder(K) ==
    IF K = {} THEN <<>>
    ELSE LET k == CHOOSE x \in K : \A y \in K : x <= y
         IN  <<k>> \o KeysInOrder(K \ {k})


\* -------------------------------------------------- database_manager.py
\* A storage call returns the store it leaves and the exception it raises
\* ("none": it returned).  MySQL checks primary keys, unique columns and
\* foreign keys; a violated constraint raises IntegrityError and the call's
\* own transaction (with_transaction) leaves the store as it was.

category_exists(s, category_id) ==
    \E c \in s.categories : c.id = category_id

get_category_by_id(s, category_id) ==
    { c \in s.categories : c.id = category_id }

get_payee_by_name(s, name) ==
    { p \in s.payees : p.name = name }

create_payee(s, data) ==
    IF \E p \in s.payees : p.name = data.name \/ p.id = data.id
    THEN [store |-> s, exc |-> "IntegrityError"]
    ELSE [store |-> [s EXCEPT !.payees = @ \cup {data}],
          exc |-> "none"]

budget_template_exists(s, year, category_id) ==
    \E t \in s.templates : t.year = year /\ t.category_id = category_id

create_budget_template(s, data) ==
    IF category_exists(s, data.category_id)
    THEN [store |-> [s EXCEPT !.templates = @ \cup {data}],
          exc |-> "none"]
    ELSE [store |-> s, exc |-> "IntegrityError"]

\* the lookup with the month left out of the WHERE clause
get_budget_entry_any_month(s, category_id, year, month) ==
    { e \in s.entries : e.category_id = category_id /\ e.year = year }

get_budget_entry(s, category_id, year, month) ==
    { e \in s.entries :
        e.category_id = category_id /\ e.year = year /\ e.month = month }

create_budget_entry(s, data) ==
    IF category_exists(s, data.category_id)
    THEN [store |-> [s EXCEPT !.entries = @ \cup {data}],
          exc |-> "none"]
    ELSE [store |-> s, exc |-> "IntegrityError"]

update_budget_entry(s, entry_id, data) ==
    [store |-> [s EXCEPT !.entries =
                   { IF e.id = entry_id
                     THEN [e EXCEPT !.amount = data.amount,
                                    !.comment = data.comment,
                                    !.updated_at = data.updated_at]
                     ELSE e : e \in @ }],
     exc |-> "none"]

\* the upsert without its lookup: every figure is inserted as a new row
create_budget_entry_always(s, data) ==
    create_budget_entry(s, data)

create_or_update_budget_entry(s, data) ==
    LET existing == get_budget_entry(s, data.category_id, data.year, data.month)
    IN  IF existing # {}
        THEN update_budget_entry(s, (CHOOSE e \in existing : TRUE).id, data)
        ELSE create_budget_entry(s, data)

\* an insert that skips a transaction the table already holds
create_transaction_once(s, data) ==
    IF \E t \in s.transactions :
           /\ t.category_id = data.category_id /\ t.payee_id = data.payee_id
           /\ t.date = data.date /\ t.amount = data.amount
    THEN [store |-> s, exc |-> "none"]
    ELSE [store |-> [s EXCEPT !.transactions = @ \cup {data}], exc |-> "none"]

create_transaction(s, data) ==
    IF /\ category_exists(s, data.category_id)
       /\ (data.payee_id = NoPayee \/ \E p \in s.payees : p.id = data.payee_id)
    THEN [store |-> [s EXCEPT !.transactions = @ \cup {data}],
          exc |-> "none"]
    ELSE [store |-> s, exc |-> "IntegrityError"]

category_has_budget_templates(s, category_id) ==
    \E t \in s.templates : t.category_id = category_id

category_has_budget_entries(s, category_id) ==
    \E e \in s.entries : e.category_id = category_id

\* a test that sees no transaction
category_has_transactions_unseen(s, category_id) == FALSE

category_has_transactions(s, category_id) ==
    \E t \in s.transactions : t.category_id = category_id

\* database_manager.delete_category: Category.get raises when no row has the
\* id; the foreign keys keep a category that rows still name
db_delete_category(s, category_id) ==
    IF get_category_by_id(s, category_id) = {}
    THEN [store |-> s, exc |-> "DoesNotExist"]
    ELSE IF \/ category_has_budget_templates(s, category_id)
            \/ category_has_budget_entries(s, category_id)
            \/ category_has_transactions(s, category_id)
    THEN [store |-> s, exc |-> "IntegrityError"]
    ELSE [store |-> [s EXCEPT !.categories =
                        { c \in @ : c.id # category_id }],
          exc |-> "none"]

get_budget_entry_by_id(s, entry_id) ==
    { e \in s.entries : e.id = entry_id }

\* database_manager.delete_budget_entry
db_delete_budget_entry(s, entry_id) ==
    IF get_budget_entry_by_id(s, entry_id) = {}
    THEN [store |-> s, exc |-> "DoesNotExist"]
    ELSE [store |-> [s EXCEPT !.entries = { e \in @ : e.id # entry_id }],
          exc |-> "none"]

\* with_retry / with_transaction around one storage call of a handler that
\* has made st.calls calls so far (r: what the wrapped function does to
\* st.store): the call goes through, or (call number
\* st.fault) the connection stays down, execute_with_retry gives up and
\* OperationalError reaches the handler.  A handler that has raised makes
\* no further call.
execute_with_retry(st) ==
    IF st.exc # "none" THEN st
    ELSE IF st.calls + 1 = st.fault
         THEN [st EXCEPT !.calls = @ + 1, !.exc = "OperationalError"]
         ELSE [st EXCEPT !.calls = @ + 1]

with_transaction(st, r) ==
    LET a == execute_with_retry(st)
    IN  IF a.exc # "none" THEN a
        ELSE [a EXCEPT !.store = r.store, !.exc = r.exc]

\* a handler's running state: the store, the exception raised so far, the
\* storage calls made, and the handler's local variables
Running(s, fault) ==
    [store |-> s, exc |-> "none", fault |-> fault, calls |-> 0,
     payee_id |-> NoPayee,
     budget_count |-> 0, transaction_count |-> 0, template_count |-> 0]


\* ------------------------------------------------------- import_logic.py
\* the payee created without looking it up first
ensure_import_payee_unchecked(st) ==
    LET data == [id |-> generate_uid(st.store.payees),
                 name |-> ImportPayeeName, type |-> "Generic"]
        w    == with_transaction(st, create_payee(st.store, data))
    IN  IF w.exc # "none" THEN w ELSE [w EXCEPT !.payee_id = data.id]

\* _ensure_import_payee: get the payee by its name, create it when absent
ensure_import_payee(st) ==
    LET a     == execute_with_retry(st)
        found == get_payee_by_name(a.store, ImportPayeeName)
    IN  IF a.exc # "none" THEN a
        ELSE IF found # {}
        THEN [a EXCEPT !.payee_id = (CHOOSE p \in found : TRUE).id]
        ELSE LET data == [id |-> generate_uid(a.store.payees),
                          name |-> ImportPayeeName, type |-> "Generic"]
                 w    == with_transaction(a, create_payee(a.store, data))
             IN  IF w.exc # "none" THEN w ELSE [w EXCEPT !.payee_id = data.id]

\* the budget months counted only where no entry is stored yet
RECURSIVE validate_budget_new_only(_, _, _, _, _)
validate_budget_new_only(acc, s, category, year, months) ==
    IF months = <<>> THEN acc
    ELSE LET month    == Head(months)
             existing == get_budget_entry(s, category.id, year, month)
         IN  validate_budget_new_only(
                 IF existing # {}
                 THEN [acc EXCEPT !.warnings =
                          Append(@, [name |-> category.name, year |-> year,
                                     month |-> month])]
                 ELSE [acc EXCEPT !.budget_count = @ + 1],
                 s, category, year, Tail(months))

\* validate_import, the body of the loop over sheet_cat["budget"].keys()
RECURSIVE validate_budget(_, _, _, _, _)
validate_budget(acc, s, category, year, months) ==
    IF months = <<>> THEN acc
    ELSE LET month    == Head(months)
             existing == get_budget_entry(s, category.id, year, month)
             warned   == IF existing # {}
                         THEN Append(acc.warnings,
                                     [name |-> category.name, year |-> year,
                                      month |-> month])
                         ELSE acc.warnings
         IN  validate_budget([acc EXCEPT !.warnings = warned,
                                         !.budget_count = @ + 1],
                             s, category, year, Tail(months))

\* the actuals counted by cell, one per month, not by bundled amount
RECURSIVE validate_actuals_by_cell(_, _, _)
validate_actuals_by_cell(acc, actuals, months) ==
    IF months = <<>> THEN acc
    ELSE validate_actuals_by_cell(
             [acc EXCEPT !.transaction_count = @ + 1], actuals, Tail(months))

\* validate_import, the body of the loop over sheet_cat["actuals"].items()
RECURSIVE validate_actuals(_, _, _)
validate_actuals(acc, actuals, months) ==
    IF months = <<>> THEN acc
    ELSE validate_actuals(
             [acc EXCEPT !.transaction_count = @ + Len(actuals[Head(months)])],
             actuals, Tail(months))

\* the checks of one sheet category without the comparison of types
check_category_untyped(s, sheet_cat, mapping) ==
    IF sheet_cat.name \notin DOMAIN mapping THEN "not mapped"
    ELSE IF get_category_by_id(s, mapping[sheet_cat.name]) = {}
    THEN "does not exist"
    ELSE "ok"

\* validate_import, the three checks of one sheet category: the first that
\* fails decides the error, "ok" when none does
check_category(s, sheet_cat, mapping) ==
    IF sheet_cat.name \notin DOMAIN mapping THEN "not mapped"
    ELSE LET found == get_category_by_id(s, mapping[sheet_cat.name])
         IN  IF found = {} THEN "does not exist"
             ELSE IF (CHOOSE c \in found : TRUE).type # sheet_cat.type
             THEN "type mismatch"
             ELSE "ok"

\* validate_import, the loop over parsed_data["sheet_categories"]
RECURSIVE validate_categories(_, _, _, _, _)
validate_categories(acc, s, cats, mapping, year) ==
    IF cats = <<>> THEN acc
    ELSE
    LET sheet_cat == Head(cats)
        rest      == Tail(cats)
        failed    == check_category(s, sheet_cat, mapping)
    IN  IF failed # "ok"
        THEN validate_categories(
                 [acc EXCEPT !.errors =
                     Append(@, [kind |-> failed, name |-> sheet_cat.name])],
                 s, rest, mapping, year)
        ELSE
        LET category == CHOOSE c \in get_category_by_id(
                                         s, mapping[sheet_cat.name]) : TRUE
            b == validate_budget(acc, s, category, year,
                                 KeysInOrder(DOMAIN sheet_cat.budget))
            a == validate_actuals(b, sheet_cat.actuals,
                                  KeysInOrder(DOMAIN sheet_cat.actuals))
        IN  validate_categories(a, s, rest, mapping, year)

\* a validation that already resolves the import payee in the store
validate_import_saving(s, parsed, mapping) ==
    LET acc == validate_categories(
                   [errors |-> <<>>, warnings |-> <<>>,
                    budget_count |-> 0, transaction_count |-> 0],
                   s, parsed.sheet_categories, mapping, parsed.year)
    IN  [store |-> ensure_import_payee(Running(s, 0)).store,
         ret |-> [valid    |-> Len(acc.errors) = 0,
                  errors   |-> acc.errors,
                  warnings |-> acc.warnings,
                  summary  |-> [budget_count      |-> acc.budget_count,
                                transaction_count |-> acc.transaction_count]]]

\* a validation that counts a warning against validity
validate_import_strict(s, parsed, mapping) ==
    LET acc == validate_categories(
                   [errors |-> <<>>, warnings |-> <<>>,
                    budget_count |-> 0, transaction_count |-> 0],
                   s, parsed.sheet_categories, mapping, parsed.year)
    IN  [store |-> s,
         ret |-> [valid    |-> Len(acc.errors) = 0 /\ Len(acc.warnings) = 0,
                  errors   |-> acc.errors,
                  warnings |-> acc.warnings,
                  summary  |-> [budget_count      |-> acc.budget_count,
                                transaction_count |-> acc.transaction_count]]]

validate_import(s, parsed, mapping) ==
    LET acc == validate_categories(
                   [errors |-> <<>>, warnings |-> <<>>,
                    budget_count |-> 0, transaction_count |-> 0],
                   s, parsed.sheet_categories, mapping, parsed.year)
    IN  [store |-> s,
         ret |-> [valid    |-> Len(acc.errors) = 0,
                  errors   |-> acc.errors,
                  warnings |-> acc.warnings,
                  summary  |-> [budget_count      |-> acc.budget_count,
                                transaction_count |-> acc.transaction_count]]]

\* import_budget_and_transactions, the loop over sheet_category["budget"];
\* clock[k] is what datetime.now() reads for the k-th figure of the call
RECURSIVE import_budget(_, _, _, _, _, _)
import_budget(st, category_id, year, budget, months, clock) ==
    IF months = <<>> \/ st.exc # "none" THEN st
    ELSE LET month == Head(months)
             data  == [id |-> generate_uid(st.store.entries),
                       category_id |-> category_id,
                       year |-> year, month |-> month,
                       amount |-> budget[month],
                       comment |-> empty_to_none(NoComment),
                       updated_at |-> clock[st.budget_count + 1]]
             w     == with_transaction(
                          st, create_or_update_budget_entry(st.store, data))
             st1   == IF w.exc # "none" THEN w
                      ELSE [w EXCEPT !.budget_count = @ + 1]
         IN  import_budget(st1, category_id, year, budget, Tail(months), clock)

\* one transaction for a cell, its first amount, whatever the cell bundles
import_amounts_first(st, category_id, year, month, amounts) ==
    IF amounts = <<>> \/ st.exc # "none" THEN st
    ELSE LET data == [id |-> generate_uid(st.store.transactions),
                      category_id |-> category_id,
                      payee_id |-> st.payee_id,
                      date |-> [year |-> year, month |-> month, day |-> 1],
                      amount |-> Head(amounts)]
             w    == with_transaction(st, create_transaction(st.store, data))
         IN  IF w.exc # "none" THEN w
             ELSE [w EXCEPT !.transaction_count = @ + 1]

\* import_budget_and_transactions, the loop over one cell's bundled amounts
RECURSIVE import_amounts(_, _, _, _, _)
import_amounts(st, category_id, year, month, amounts) ==
    IF amounts = <<>> \/ st.exc # "none" THEN st
    ELSE LET data == [id |-> generate_uid(st.store.transactions),
                      category_id |-> category_id,
                      payee_id |-> st.payee_id,
                      date |-> [year |-> year, month |-> month, day |-> 1],
                      amount |-> Head(amounts)]
             w    == with_transaction(st, create_transaction(st.store, data))
             st1  == IF w.exc # "none" THEN w
                     ELSE [w EXCEPT !.transaction_count = @ + 1]
         IN  import_amounts(st1, category_id, year, month, Tail(amounts))

\* import_budget_and_transactions, the loop over sheet_category["actuals"]
RECURSIVE import_actuals(_, _, _, _, _)
import_actuals(st, category_id, year, actuals, months) ==
    IF months = <<>> \/ st.exc # "none" THEN st
    ELSE import_actuals(
             import_amounts(st, category_id, year, Head(months),
                            actuals[Head(months)]),
             category_id, year, actuals, Tail(months))

\* import_budget_and_transactions, the loop over the sheet categories
RECURSIVE import_categories(_, _, _, _, _)
import_categories(st, cats, mapping, year, clock) ==
    IF cats = <<>> \/ st.exc # "none" THEN st
    ELSE LET sheet_category == Head(cats)
         IN  IF sheet_category.name \notin DOMAIN mapping
             THEN [st EXCEPT !.exc = "KeyError"]
             ELSE
             LET category_id == mapping[sheet_category.name]
                 b == import_budget(st, category_id, year, sheet_category.budget,
                                    KeysInOrder(DOMAIN sheet_category.budget),
                                    clock)
                 a == import_actuals(b, category_id, year,
                                     sheet_category.actuals,
                                     KeysInOrder(DOMAIN sheet_category.actuals))
             IN  import_categories(a, Tail(cats), mapping, year, clock)

\* import_budget_and_transactions, the loop over set(category_mapping.values())
RECURSIVE import_templates(_, _, _)
import_templates(st, ids, year) ==
    IF ids = <<>> \/ st.exc # "none" THEN st
    ELSE LET category_id == Head(ids)
             r == execute_with_retry(st)
         IN  IF r.exc # "none" THEN r
             ELSE IF budget_template_exists(r.store, year, category_id)
             THEN import_templates(r, Tail(ids), year)
             ELSE
             LET data == [id |-> generate_uid(r.store.templates), year |-> year,
                          category_id |-> category_id]
                 w    == with_transaction(
                             r, create_budget_template(r.store, data))
                 st1  == IF w.exc # "none" THEN w
                         ELSE [w EXCEPT !.template_count = @ + 1]
             IN  import_templates(st1, Tail(ids), year)

\* the values of a mapping, and the orders a Python set of them iterates in
MappingValues(mapping) == { mapping[n] : n \in DOMAIN mapping }

Orders(S) ==
    { q \in [1..Cardinality(S) -> S] : \A i, j \in DOMAIN q : q[i] = q[j] => i = j }

\* the import as one transaction: a failure leaves the store as it was
import_all_or_nothing(s, parsed, mapping, order, fault, clock) ==
    LET p == ensure_import_payee(Running(s, fault))
        c == import_categories(p, parsed.sheet_categories, mapping,
                               parsed.year, clock)
        t == import_templates(c, order, parsed.year)
    IN  IF t.exc # "none" THEN [t EXCEPT !.store = s] ELSE t

import_budget_and_transactions(s, parsed, mapping, order, fault, clock) ==
    LET p == ensure_import_payee(Running(s, fault))
        c == import_categories(p, parsed.sheet_categories, mapping,
                               parsed.year, clock)
    IN  import_templates(c, order, parsed.year)


\* ----------------------------------------------------- business_logic.py
add_category_to_template(s, year, category_id) ==
    IF ~validate_year(year) THEN [store |-> s, exc |-> "ValueError"]
    ELSE IF get_category_by_id(s, category_id) = {}
    THEN [store |-> s, exc |-> "ValueError"]
    ELSE IF budget_template_exists(s, year, category_id)
    THEN [store |-> s, exc |-> "ValueError"]
    ELSE create_budget_template(s, [id |-> generate_uid(s.templates), year |-> year,
                                    category_id |-> category_id])

save_budget_entry(s, category_id, year, month, amount, comment, clock) ==
    IF get_category_by_id(s, category_id) = {}
    THEN [store |-> s, exc |-> "ValueError"]
    ELSE IF ~validate_year(year) THEN [store |-> s, exc |-> "ValueError"]
    ELSE IF ~validate_month(month) THEN [store |-> s, exc |-> "ValueError"]
    ELSE IF amount < 0 THEN [store |-> s, exc |-> "ValueError"]
    ELSE IF ~budget_template_exists(s, year, category_id)
    THEN [store |-> s, exc |-> "ValueError"]
    ELSE
    LET existing_entry == get_budget_entry(s, category_id, year, month)
    IN  IF existing_entry # {}
        THEN update_budget_entry(s, (CHOOSE e \in existing_entry : TRUE).id,
                 [amount |-> amount, comment |-> empty_to_none(comment),
                  updated_at |-> clock])
        ELSE create_budget_entry(s,
                 [id |-> generate_uid(s.entries), category_id |-> category_id,
                  year |-> year, month |-> month, amount |-> amount,
                  comment |-> empty_to_none(comment),
                  updated_at |-> clock])

delete_category(s, category_id) ==
    IF get_category_by_id(s, category_id) = {}
    THEN [store |-> s, exc |-> "ValueError"]
    ELSE IF category_has_budget_templates(s, category_id)
    THEN [store |-> s, exc |-> "ValueError"]
    ELSE IF category_has_budget_entries(s, category_id)
    THEN [store |-> s, exc |-> "ValueError"]
    ELSE IF category_has_transactions(s, category_id)
    THEN [store |-> s, exc |-> "ValueError"]
    ELSE db_delete_category(s, category_id)

delete_budget_entry(s, entry_id) ==
    IF get_budget_entry_by_id(s, entry_id) = {}
    THEN [store |-> s, exc |-> "ValueError"]
    ELSE db_delete_budget_entry(s, entry_id)

\* ---------------------------------- database_manager.py: the other tables
\* str.lower() and the case-insensitive ILIKE / unique index, on the names
\* that occur
lower(name) ==
    IF name = "Salary" THEN "salary"
    ELSE IF name = "Housing" THEN "housing"
    ELSE IF name = "Food" THEN "food"
    ELSE IF name = "Shop" THEN "shop"
    ELSE name

\* str.strip(), on the names that occur
strip_name(name) ==
    IF name = " Food" THEN "Food" ELSE IF name = " " THEN "" ELSE name

category_exists_by_name(s, name) ==
    \E c \in s.categories : lower(c.name) = lower(name)

db_create_category(s, data) ==
    IF \/ category_exists(s, data.id)
       \/ category_exists_by_name(s, data.name)
    THEN [store |-> s, exc |-> "IntegrityError"]
    ELSE [store |-> [s EXCEPT !.categories = @ \cup {data}], exc |-> "none"]

db_update_category(s, category_id, name) ==
    IF get_category_by_id(s, category_id) = {}
    THEN [store |-> s, exc |-> "DoesNotExist"]
    ELSE IF \E c \in s.categories :
                c.id # category_id /\ lower(c.name) = lower(name)
    THEN [store |-> s, exc |-> "IntegrityError"]
    ELSE [store |-> [s EXCEPT !.categories =
                        { IF c.id = category_id THEN [c EXCEPT !.name = name]
                          ELSE c : c \in @ }],
          exc |-> "none"]

get_payee_by_id(s, payee_id) == { p \in s.payees : p.id = payee_id }

payee_exists_by_name(s, name) ==
    \E p \in s.payees : lower(p.name) = lower(name)

db_update_payee(s, payee_id, name) ==
    IF get_payee_by_id(s, payee_id) = {}
    THEN [store |-> s, exc |-> "DoesNotExist"]
    ELSE IF \E p \in s.payees : p.id # payee_id /\ lower(p.name) = lower(name)
    THEN [store |-> s, exc |-> "IntegrityError"]
    ELSE [store |-> [s EXCEPT !.payees =
                        { IF p.id = payee_id THEN [p EXCEPT !.name = name]
                          ELSE p : p \in @ }],
          exc |-> "none"]

payee_transaction_count(s, payee_id) ==
    Cardinality({ t \in s.transactions : t.payee_id = payee_id })

\* Payee.get raises when no row has the id; the foreign key of
\* transactions.payee_id keeps a payee that transactions still name
db_delete_payee(s, payee_id) ==
    IF get_payee_by_id(s, payee_id) = {}
    THEN [store |-> s, exc |-> "DoesNotExist"]
    ELSE IF payee_transaction_count(s, payee_id) > 0
    THEN [store |-> s, exc |-> "IntegrityError"]
    ELSE [store |-> [s EXCEPT !.payees = { p \in @ : p.id # payee_id }],
          exc |-> "none"]

\* alphabetical rank of a name and of a type, for ORDER BY
name_rank(name) ==
    IF lower(name) = "food" THEN 1
    ELSE IF lower(name) = "housing" THEN 2
    ELSE 3

type_rank(type) == IF type = "expenses" THEN 1 ELSE 2

\* the template rows of the year joined with their categories, ordered by
\* Category.type, Category.name
RECURSIVE ordered_templates(_, _)
ordered_templates(s, rows) ==
    IF rows = {} THEN <<>>
    ELSE LET key(t) == LET c == CHOOSE c \in s.categories : c.id = t.category_id
                       IN  type_rank(c.type) * 4 + name_rank(c.name)
             first  == CHOOSE t \in rows :
                           \A u \in rows : key(t) < key(u) \/
                               (key(t) = key(u) /\ t.id <= u.id)
         IN  <<first>> \o ordered_templates(s, rows \ {first})

get_budget_template_by_year(s, year) ==
    ordered_templates(s, { t \in s.templates :
                              t.year = year /\ category_exists(s, t.category_id) })

delete_budget_template(s, year, category_id) ==
    IF ~budget_template_exists(s, year, category_id)
    THEN [store |-> s, exc |-> "DoesNotExist"]
    ELSE LET template == CHOOSE t \in s.templates :
                             t.year = year /\ t.category_id = category_id
         IN  [store |-> [s EXCEPT !.templates = @ \ {template}],
              exc |-> "none"]

category_has_budget_entries_for_year(s, category_id, year) ==
    \E e \in s.entries : e.category_id = category_id /\ e.year = year

category_has_transactions_for_year(s, category_id, year) ==
    \E t \in s.transactions :
        t.category_id = category_id /\ t.date.year = year

get_transaction_by_id(s, transaction_id) ==
    { t \in s.transactions : t.id = transaction_id }

db_update_transaction(s, transaction_id, data) ==
    IF get_transaction_by_id(s, transaction_id) = {}
    THEN [store |-> s, exc |-> "DoesNotExist"]
    ELSE IF data.payee_id # NoPayee /\ get_payee_by_id(s, data.payee_id) = {}
    THEN [store |-> s, exc |-> "IntegrityError"]
    ELSE [store |-> [s EXCEPT !.transactions =
                        { IF t.id = transaction_id
                          THEN [t EXCEPT !.date = data.date,
                                         !.amount = data.amount,
                                         !.payee_id = data.payee_id]
                          ELSE t : t \in @ }],
          exc |-> "none"]

db_delete_transaction(s, transaction_id) ==
    IF get_transaction_by_id(s, transaction_id) = {}
    THEN [store |-> s, exc |-> "DoesNotExist"]
    ELSE [store |-> [s EXCEPT !.transactions =
                        { t \in @ : t.id # transaction_id }],
          exc |-> "none"]

\* ------------------------------ business_logic.py: categories and payees
create_category(s, name, type) ==
    IF name = "" \/ strip_name(name) = ""
    THEN [store |-> s, exc |-> "ValueError"]
    ELSE IF type \notin Types THEN [store |-> s, exc |-> "ValueError"]
    ELSE IF category_exists_by_name(s, strip_name(name))
    THEN [store |-> s, exc |-> "ValueError"]
    ELSE db_create_category(s, [id |-> generate_uid(s.categories),
                                name |-> strip_name(name), type |-> type])

update_category(s, category_id, name) ==
    LET category == get_category_by_id(s, category_id)
    IN  IF category = {} THEN [store |-> s, exc |-> "ValueError"]
        ELSE IF name = "" \/ strip_name(name) = ""
        THEN [store |-> s, exc |-> "ValueError"]
        ELSE IF /\ lower(strip_name(name)) #
                      lower((CHOOSE c \in category : TRUE).name)
                /\ category_exists_by_name(s, strip_name(name))
        THEN [store |-> s, exc |-> "ValueError"]
        ELSE db_update_category(s, category_id, strip_name(name))

PayeeTypes == {"Generic", "Actual"}

business_create_payee(s, name, type) ==
    IF name = "" \/ strip_name(name) = ""
    THEN [store |-> s, exc |-> "ValueError"]
    ELSE IF type \notin PayeeTypes THEN [store |-> s, exc |-> "ValueError"]
    ELSE IF payee_exists_by_name(s, strip_name(name))
    THEN [store |-> s, exc |-> "ValueError"]
    ELSE create_payee(s, [id |-> generate_uid(s.payees),
                          name |-> strip_name(name), type |-> type])

update_payee(s, payee_id, name) ==
    LET payee == get_payee_by_id(s, payee_id)
    IN  IF payee = {} THEN [store |-> s, exc |-> "ValueError"]
        ELSE IF name = "" \/ strip_name(name) = ""
        THEN [store |-> s, exc |-> "ValueError"]
        ELSE IF /\ lower(strip_name(name)) #
                      lower((CHOOSE q \in payee : TRUE).name)
                /\ payee_exists_by_name(s, strip_name(name))
        THEN [store |-> s, exc |-> "ValueError"]
        ELSE db_update_payee(s, payee_id, strip_name(name))

delete_payee(s, payee_id) ==
    IF get_payee_by_id(s, payee_id) = {}
    THEN [store |-> s, exc |-> "ValueError"]
    ELSE IF payee_transaction_count(s, payee_id) > 0
    THEN [store |-> s, exc |-> "ValueError"]
    ELSE db_delete_payee(s, payee_id)

\* ------------------------------------ business_logic.py: budget templates
remove_category_from_template(s, year, category_id) ==
    IF ~validate_year(year) THEN [store |-> s, exc |-> "ValueError"]
    ELSE IF ~budget_template_exists(s, year, category_id)
    THEN [store |-> s, exc |-> "ValueError"]
    ELSE IF category_has_budget_entries_for_year(s, category_id, year)
    THEN [store |-> s, exc |-> "ValueError"]
    ELSE IF category_has_transactions_for_year(s, category_id, year)
    THEN [store |-> s, exc |-> "ValueError"]
    ELSE delete_budget_template(s, year, category_id)

\* the loop of copy_budget_template over source_templates: a ValueError of
\* add_category_to_template is passed over, another exception ends the call
RECURSIVE copy_templates(_, _, _)
copy_templates(acc, to_year, source_templates) ==
    IF source_templates = <<>> \/ acc.exc # "none" THEN acc
    ELSE LET r == add_category_to_template(acc.store, to_year,
                                           Head(source_templates).category_id)
         IN  copy_templates(
                 IF r.exc = "none"
                 THEN [acc EXCEPT !.store = r.store, !.copied_count = @ + 1]
                 ELSE IF r.exc = "ValueError" THEN acc
                 ELSE [acc EXCEPT !.exc = r.exc],
                 to_year, Tail(source_templates))

\* a copy that takes the target year's template from the source year
copy_budget_template_replacing(s, from_year, to_year) ==
    LET kept == [s EXCEPT !.templates = { t \in @ : t.year # to_year }]
    IN  copy_templates([store |-> kept, exc |-> "none", copied_count |-> 0],
                       to_year, get_budget_template_by_year(s, from_year))

copy_budget_template(s, from_year, to_year) ==
    IF ~validate_year(from_year)
    THEN [store |-> s, exc |-> "ValueError", copied_count |-> 0]
    ELSE IF ~validate_year(to_year)
    THEN [store |-> s, exc |-> "ValueError", copied_count |-> 0]
    ELSE copy_templates([store |-> s, exc |-> "none", copied_count |-> 0],
                        to_year, get_budget_template_by_year(s, from_year))

\* ---------------------------------------- business_logic.py: transactions
\* datetime.strptime(date_str, '%Y-%m-%d') accepts the date
validate_date_format(date) ==
    /\ date.year >= 1 /\ date.year <= 9999
    /\ date.month >= 1 /\ date.month <= 12
    /\ date.day >= 1 /\ date.day <= 28

business_create_transaction(s, category_id, date, amount, payee_id) ==
    IF get_category_by_id(s, category_id) = {}
    THEN [store |-> s, exc |-> "ValueError"]
    ELSE IF payee_id # NoPayee /\ get_payee_by_id(s, payee_id) = {}
    THEN [store |-> s, exc |-> "ValueError"]
    ELSE IF ~validate_date_format(date)
    THEN [store |-> s, exc |-> "ValueError"]
    ELSE create_transaction(s, [id |-> generate_uid(s.transactions),
                                category_id |-> category_id,
                                payee_id |-> payee_id,
                                date |-> date, amount |-> amount])

update_transaction(s, transaction_id, date, amount, payee_id) ==
    IF get_transaction_by_id(s, transaction_id) = {}
    THEN [store |-> s, exc |-> "ValueError"]
    ELSE IF ~validate_date_format(date)
    THEN [store |-> s, exc |-> "ValueError"]
    ELSE IF payee_id # NoPayee /\ get_payee_by_id(s, payee_id) = {}
    THEN [store |-> s, exc |-> "ValueError"]
    ELSE db_update_transaction(s, transaction_id,
             [date |-> date, amount |-> amount, payee_id |-> payee_id])

delete_transaction(s, transaction_id) ==
    IF get_transaction_by_id(s, transaction_id) = {}
    THEN [store |-> s, exc |-> "ValueError"]
    ELSE db_delete_transaction(s, transaction_id)

\* ------------------------------------------------------------ the system
\* what the budget requests carry: well-formed requests and, for each check
\* of the handler, one request that fails it
TemplateRequests ==
    { [year |-> ImportYear, category_id |-> c] : c \in CategoryIds }
        \cup { [year |-> MIN_YEAR - 1, category_id |-> 1] }

EntryRequests ==
    { [category_id |-> 1, year |-> ImportYear, month |-> MIN_MONTH,
       amount |-> 0, comment |-> "rent"] }
        \cup { [category_id |-> 3, year |-> ImportYear, month |-> MIN_MONTH,
                amount |-> 0, comment |-> ""],
               [category_id |-> 1, year |-> MAX_YEAR + 1, month |-> MIN_MONTH,
                amount |-> 0, comment |-> ""],
               [category_id |-> 1, year |-> ImportYear, month |-> MAX_MONTH + 1,
                amount |-> 0, comment |-> ""],
               [category_id |-> 1, year |-> ImportYear, month |-> MIN_MONTH,
                amount |-> -1, comment |-> ""] }

\* what a handler hands back; a field the handler does not return is at rest
NoResult ==
    [valid |-> FALSE, errors |-> <<>>, warnings |-> <<>>,
     budget_count |-> 0, transaction_count |-> 0, template_count |-> 0,
     payee_id |-> NoPayee,
     from_year |-> 0, to_year |-> 0, copied_count |-> 0]

\* no report of validate_import is at hand
NotValidated == [valid |-> FALSE, warned |-> {}, found |-> {}]

\* no cell is being read
NoCell       == [none |-> TRUE, text |-> <<>>]
NotWritten   == [sum |-> FALSE, addends |-> <<>>]
NotExtracted == [exc |-> "not called", detail |-> "", row |-> 0, col |-> "",
                 amounts |-> <<>>]

\* no file is being parsed
NoFile    == [layout |-> "none", blocks |-> <<>>]
NotParsed == [exc |-> "not called", detail |-> "", category |-> 0,
              row |-> 0, col |-> "", year |-> 0, sheet_categories |-> <<>>]

\* execute_with_retry is not running
NoRetry == [pc |-> "not called", outcomes |-> <<>>, healthy |-> <<>>,
            attempt |-> 0, calls |-> 0, reconnects |-> 0, slept |-> 0,
            last_exception |-> 0, returned |-> 0, raised |-> 0]

\* no trend: None where calculate_trend returns a dict
NoArrow == [arrow |-> "None", color |-> "None"]

\* calculate_category_trends is not being called
NoTrends == [year |-> 0, found |-> FALSE, type |-> "",
             current_budget |-> <<>>, previous_budget |-> <<>>,
             current_transactions |-> <<>>, previous_transactions |-> <<>>,
             exc |-> "not called", months |-> <<>>,
             total |-> [budget |-> NoArrow, actual |-> NoArrow]]

\* the configuration is not in use: the table and the cache are empty
NoConfig == [stored |-> <<>>, cache |-> <<>>, cache_timestamp |-> NoTime,
             now |-> 0, op |-> "none", exc |-> "none", from_cache |-> FALSE,
             returned |-> <<>>, shared |-> FALSE, partial |-> FALSE]

\* no sheet is being scanned for its sections
NoColumn   == <<>>
NotScanned == [exc |-> "not called", utgifter_row |-> 0, inntekter_row |-> 0,
               types |-> <<>>]

NoCellRead ==
    /\ column_c = NoColumn
    /\ sections = NotScanned /\ retry = NoRetry /\ trends = NoTrends /\ config = NoConfig
    /\ workbook = NoFile
    /\ parse_result = NotParsed
    /\ cell_value = NoCell
    /\ row_num = 0
    /\ col_name = ""
    /\ written = NotWritten
    /\ extracted = NotExtracted

Init ==
    /\ NoCellRead
    /\ validated = NotValidated
    /\ categories = StoredCategories
    /\ payees = {}
    /\ templates = {}
    /\ entries = {}
    /\ transactions = {}
    /\ parsed_data \in ParsedInputs
    /\ category_mapping \in Mappings
    /\ last = [op |-> "none", exc |-> "none", ret |-> NoResult]

\* the handler left the store s
Commit(s) ==
    /\ Cardinality(s.payees) + Cardinality(s.templates) + Cardinality(s.entries)
         + Cardinality(s.transactions) <= MaxRows
    /\ categories' = s.categories
    /\ payees' = s.payees
    /\ templates' = s.templates
    /\ entries' = s.entries
    /\ transactions' = s.transactions

\* datetime.now() as a handler may read it: the wall clock never runs
\* backwards, so a reading is no earlier than any timestamp in the store
Times == 0..MaxTime

Clock(t) == t \in Times /\ \A e \in entries : e.updated_at <= t

\* the readings of a handler that reads the clock n times, one after another
Clocks(n) ==
    { q \in [1..n -> Times] :
        /\ \A k \in 1..n : Clock(q[k])
        /\ \A j, k \in 1..n : j <= k => q[j] <= q[k] }

\* the budget figures of a workbook: one clock reading each
RECURSIVE BudgetFigures(_)
BudgetFigures(cats) ==
    IF cats = <<>> THEN 0
    ELSE Cardinality(DOMAIN Head(cats).budget) + BudgetFigures(Tail(cats))

AddCategoryToTemplate(req) ==
    LET r == add_category_to_template(Store, req.year, req.category_id)
    IN  /\ Commit(r.store)
        /\ last' = [op |-> "add_category_to_template", exc |-> r.exc,
                    ret |-> NoResult]
        /\ UNCHANGED <<parsed_data, category_mapping>>

SaveBudgetEntry(req, now) ==
    LET r == save_budget_entry(Store, req.category_id, req.year, req.month,
                               req.amount, req.comment, now)
    IN  /\ Clock(now)
        /\ Commit(r.store)
        /\ last' = [op |-> "save_budget_entry", exc |-> r.exc, ret |-> NoResult]
        /\ UNCHANGED <<parsed_data, category_mapping>>

EnsureImportPayee(fault) ==
    LET r == ensure_import_payee(Running(Store, fault))
    IN  /\ Commit(r.store)
        /\ last' = [op |-> "ensure_import_payee", exc |-> r.exc,
                    ret |-> [NoResult EXCEPT !.payee_id = r.payee_id]]
        /\ UNCHANGED <<parsed_data, category_mapping>>

ValidateImport ==
    LET r == validate_import(Store, parsed_data, category_mapping)
    IN  /\ Commit(r.store)
        /\ last' = [op |-> "validate_import", exc |-> "none",
                    ret |-> [NoResult EXCEPT
                               !.valid = r.ret.valid,
                               !.errors = r.ret.errors,
                               !.warnings = r.ret.warnings,
                               !.budget_count = r.ret.summary.budget_count,
                               !.transaction_count =
                                   r.ret.summary.transaction_count]]
        /\ UNCHANGED <<parsed_data, category_mapping>>

ImportBudgetAndTransactions(fault, order, now) ==
    LET r == import_budget_and_transactions(Store, parsed_data,
                                            category_mapping, order, fault, now)
    IN  /\ Commit(r.store)
        /\ last' = [op |-> "import_budget_and_transactions", exc |-> r.exc,
                    ret |-> [NoResult EXCEPT
                               !.payee_id = r.payee_id,
                               !.budget_count = r.budget_count,
                               !.transaction_count = r.transaction_count,
                               !.template_count = r.template_count]]
        /\ UNCHANGED <<parsed_data, category_mapping>>

Next ==
    \/ \E req \in TemplateRequests :
           AddCategoryToTemplate(req) /\ UNCHANGED aside
    \/ \E req \in EntryRequests, now \in Times :
           SaveBudgetEntry(req, now) /\ UNCHANGED aside
    \/ \E fault \in 0..MaxFault :
           EnsureImportPayee(fault) /\ UNCHANGED aside
    \/ ValidateImport /\ UNCHANGED aside
    \/ \E fault \in 0..MaxFault,
          now \in Clocks(BudgetFigures(parsed_data.sheet_categories)),
          order \in Orders(MappingValues(category_mapping)) :
           ImportBudgetAndTransactions(fault, order, now) /\ UNCHANGED aside

Spec == Init /\ [][Next]_vars

\* ------------------------------------- one import run among other requests
\* The client validates, reads the report and executes; the two calls are
\* two requests, and the requests of the budget and category pages are
\* served in between.
DeleteCategory(category_id) ==
    LET r == delete_category(Store, category_id)
    IN  /\ Commit(r.store)
        /\ last' = [op |-> "delete_category", exc |-> r.exc, ret |-> NoResult]
        /\ UNCHANGED <<parsed_data, category_mapping>>

DeleteBudgetEntry(entry_id) ==
    LET r == delete_budget_entry(Store, entry_id)
    IN  /\ Commit(r.store)
        /\ last' = [op |-> "delete_budget_entry", exc |-> r.exc,
                    ret |-> NoResult]
        /\ UNCHANGED <<parsed_data, category_mapping>>

\* the report as the client holds it: valid, the budget entries the warnings
\* name, and the ids validate_import found a category for
Report(ret) ==
    [valid  |-> ret.valid,
     warned |-> { ret.warnings[k] : k \in DOMAIN ret.warnings },
     found  |-> { category_mapping[n] : n \in
                    { x \in DOMAIN category_mapping :
                        get_category_by_id(Store, category_mapping[x]) # {} } }]

\* the workbooks of a run that writes budget figures only, one category
RunInputs ==
    { p \in ParsedInputs :
        /\ Len(p.sheet_categories) = 1
        /\ DOMAIN p.sheet_categories[1].actuals = {} }

RunMappings == { m \in Mappings : DOMAIN m = {1} /\ m[1] \in {1, 2} }

RunInit ==
    /\ NoCellRead
    /\ validated = NotValidated
    /\ categories = StoredCategories
    /\ payees = {}
    /\ templates = {}
    /\ entries = {}
    /\ transactions = {}
    /\ parsed_data \in RunInputs
    /\ category_mapping \in RunMappings
    /\ last = [op |-> "none", exc |-> "none", ret |-> NoResult]

RunNext ==
    \/ /\ ValidateImport
       /\ validated' = Report(last'.ret)
       /\ UNCHANGED <<cell_value, row_num, col_name, written, extracted,
                      workbook, parse_result, column_c, sections,
            retry,
            trends,
            config>>
    \/ /\ \E now \in Clocks(BudgetFigures(parsed_data.sheet_categories)),
             order \in Orders(MappingValues(category_mapping)) :
              ImportBudgetAndTransactions(0, order, now)
       /\ validated' = NotValidated
       /\ UNCHANGED <<cell_value, row_num, col_name, written, extracted,
                      workbook, parse_result, column_c, sections,
            retry,
            trends,
            config>>
    \/ \E req \in TemplateRequests :
           AddCategoryToTemplate(req) /\ UNCHANGED aside
    \/ \E req \in EntryRequests, now \in Times :
           SaveBudgetEntry(req, now) /\ UNCHANGED aside
    \/ \E c \in CategoryIds : DeleteCategory(c) /\ UNCHANGED aside
    \/ \E e \in 1..MaxRows : DeleteBudgetEntry(e) /\ UNCHANGED aside

SpecRun == RunInit /\ [][RunNext]_vars

\* ---------------------------------------- import_logic.py: the cell reader
\* A Python str is the sequence of its characters.
Whitespace == {" "}

DigitChars == <<"0", "1", "2", "3", "4", "5", "6", "7", "8", "9">>

isdigit(c) == \E i \in DOMAIN DigitChars : DigitChars[i] = c

digit(c) == (CHOOSE i \in DOMAIN DigitChars : DigitChars[i] = c) - 1

\* str.strip()
RECURSIVE lstrip(_)
lstrip(str) ==
    IF str # <<>> /\ Head(str) \in Whitespace THEN lstrip(Tail(str)) ELSE str

RECURSIVE rstrip(_)
rstrip(str) ==
    IF str # <<>> /\ str[Len(str)] \in Whitespace
    THEN rstrip(SubSeq(str, 1, Len(str) - 1))
    ELSE str

strip(str) == rstrip(lstrip(str))

\* str.replace(old, ""), old one character
replace(str, old) ==
    LET Keep(c) == c # old IN SelectSeq(str, Keep)

\* sub in str
contains(str, sub) ==
    \E i \in 1..(Len(str) - Len(sub) + 1) :
        SubSeq(str, i, i + Len(sub) - 1) = sub

\* str.split(sep), sep one character
RECURSIVE split(_, _)
split(str, sep) ==
    IF \A i \in DOMAIN str : str[i] # sep THEN <<str>>
    ELSE LET i == CHOOSE k \in DOMAIN str :
                      str[k] = sep /\ \A j \in 1..(k - 1) : str[j] # sep
         IN  <<SubSeq(str, 1, i - 1)>> \o split(SubSeq(str, i + 1, Len(str)), sep)

\* the number a run of digits writes
RECURSIVE number(_)
number(ds) ==
    IF ds = <<>> THEN 0
    ELSE 10 * number(SubSeq(ds, 1, Len(ds) - 1)) + digit(ds[Len(ds)])

\* float(part) of a stripped part: an optional sign, digits with at most one
\* point among them, one digit at least; anything else raises ValueError.
\* The float is kept as its sign, whole part and decimals.
float(part) ==
    LET signed == part # <<>> /\ Head(part) \in {"-", "+"}
        body   == IF signed THEN Tail(part) ELSE part
        points == { i \in DOMAIN body : body[i] = "." }
        point  == IF points = {} THEN Len(body) + 1
                  ELSE CHOOSE i \in points : TRUE
        whole  == SubSeq(body, 1, point - 1)
        frac   == SubSeq(body, point + 1, Len(body))
    IN  IF /\ Cardinality(points) <= 1
           /\ \A i \in DOMAIN whole : isdigit(whole[i])
           /\ \A i \in DOMAIN frac : isdigit(frac[i])
           /\ Len(whole) + Len(frac) >= 1
        THEN [ok |-> TRUE, negative |-> signed /\ Head(part) = "-",
              whole |-> number(whole), frac |-> frac]
        ELSE [ok |-> FALSE, negative |-> FALSE, whole |-> 0, frac |-> <<>>]

\* a float that rounds half up where int() cuts the decimals off
int_rounded(x) ==
    LET up == IF x.frac # <<>> /\ digit(Head(x.frac)) >= 5 THEN 1 ELSE 0
    IN  IF x.negative THEN 0 - (x.whole + up) ELSE x.whole + up

\* int(x) of a float: the decimals are cut off, towards zero
int(x) == IF x.negative THEN 0 - x.whole ELSE x.whole

\* the function names and operators of the list `forbidden`, in its order
forbidden ==
    << [item |-> "IF",      chars |-> <<"I", "F">>],
       [item |-> "SUM",     chars |-> <<"S", "U", "M">>],
       [item |-> "AVERAGE", chars |-> <<"A", "V", "E", "R", "A", "G", "E">>],
       [item |-> "COUNT",   chars |-> <<"C", "O", "U", "N", "T">>],
       [item |-> "MIN",     chars |-> <<"M", "I", "N">>],
       [item |-> "MAX",     chars |-> <<"M", "A", "X">>],
       [item |-> "*",       chars |-> <<"*">>],
       [item |-> "/",       chars |-> <<"/">>],
       [item |-> "-",       chars |-> <<"-">>] >>

FunctionNames == {"IF", "SUM", "AVERAGE", "COUNT", "MIN", "MAX"}

raise(kind, detail, row, col) ==
    [exc |-> kind, detail |-> detail, row |-> row, col |-> col,
     amounts |-> <<>>]

return(amounts) ==
    [exc |-> "none", detail |-> "", row |-> 0, col |-> "", amounts |-> amounts]

\* the scan with the operators looked for before the function names
RECURSIVE scan_operators_first(_, _)
scan_operators_first(formula_str, items) ==
    IF contains(formula_str, <<"*">>) \/ contains(formula_str, <<"/">>)
    THEN [exc |-> "Only addition (+) supported", detail |-> ""]
    ELSE IF items = <<>> THEN [exc |-> "none", detail |-> ""]
    ELSE IF /\ contains(formula_str, Head(items).chars)
            /\ Head(items).item \in FunctionNames
    THEN [exc |-> "Complex formula not supported", detail |-> Head(items).item]
    ELSE scan_operators_first(formula_str, Tail(items))

\* the loop over `forbidden`: the first item the text holds decides
RECURSIVE scan(_, _)
scan(formula_str, items) ==
    IF items = <<>> THEN [exc |-> "none", detail |-> ""]
    ELSE LET forbidden_item == Head(items)
         IN  IF contains(formula_str, forbidden_item.chars)
             THEN IF forbidden_item.item \in FunctionNames
                  THEN [exc |-> "Complex formula not supported",
                        detail |-> forbidden_item.item]
                  ELSE IF forbidden_item.item = "-"
                  THEN scan(formula_str, Tail(items))
                  ELSE [exc |-> "Only addition (+) supported", detail |-> ""]
             ELSE scan(formula_str, Tail(items))

\* the loop over the parts with a zero amount left out
RECURSIVE convert_nonzero(_, _, _, _)
convert_nonzero(parts, amounts, row, col) ==
    IF parts = <<>> THEN return(amounts)
    ELSE LET part == strip(Head(parts))
         IN  IF part = <<>> THEN convert_nonzero(Tail(parts), amounts, row, col)
             ELSE IF ~float(part).ok
             THEN raise("Invalid number format", "", row, col)
             ELSE IF int(float(part)) < 0
             THEN raise("Negative value not allowed", "", row, col)
             ELSE IF int(float(part)) = 0
             THEN convert_nonzero(Tail(parts), amounts, row, col)
             ELSE convert_nonzero(Tail(parts),
                                  Append(amounts, int(float(part))), row, col)

\* the loop over the parts: each non-empty part becomes one amount
RECURSIVE convert(_, _, _, _)
convert(parts, amounts, row, col) ==
    IF parts = <<>> THEN return(amounts)
    ELSE LET part == strip(Head(parts))
         IN  IF part = <<>> THEN convert(Tail(parts), amounts, row, col)
             ELSE IF ~float(part).ok
             THEN raise("Invalid number format", "", row, col)
             ELSE LET value == int(float(part))
                  IN  IF value < 0
                      THEN raise("Negative value not allowed", "", row, col)
                      ELSE convert(Tail(parts), Append(amounts, value), row, col)

\* the text with its opening parentheses removed and the closing ones kept
prepared_half(cell_text) ==
    LET formula_str == strip(cell_text)
        unprefixed  == IF formula_str # <<>> /\ Head(formula_str) = "="
                       THEN Tail(formula_str) ELSE formula_str
    IN  replace(unprefixed, "(")

\* the text the checks read: stripped, without a leading "=" and parentheses
prepared(cell_text) ==
    LET formula_str == strip(cell_text)
        unprefixed  == IF formula_str # <<>> /\ Head(formula_str) = "="
                       THEN Tail(formula_str) ELSE formula_str
    IN  replace(replace(unprefixed, "("), ")")

\* the parts converted first and the text scanned only when they all convert
extract_parts_first(cell, row, col) ==
    IF cell.none \/ cell.text = <<>> THEN return(<<>>)
    ELSE IF strip(cell.text) = <<>> THEN return(<<>>)
    ELSE LET formula_str == prepared(cell.text)
             found       == scan(formula_str, forbidden)
             amounts     == convert(split(formula_str, "+"), <<>>, row, col)
         IN  IF amounts.exc # "none" THEN amounts
             ELSE IF found.exc # "none"
             THEN raise(found.exc, found.detail, row, col)
             ELSE amounts

extract_amounts_from_formula(cell, row, col) ==
    IF cell.none \/ cell.text = <<>> THEN return(<<>>)
    ELSE IF strip(cell.text) = <<>> THEN return(<<>>)
    ELSE LET formula_str == prepared(cell.text)
             found       == scan(formula_str, forbidden)
         IN  IF found.exc # "none"
             THEN raise(found.exc, found.detail, row, col)
             ELSE convert(split(formula_str, "+"), <<>>, row, col)

\* --------------------------------------------- one cell read by the reader
MaxText    == 4
MaxTokens  == 3
MaxAddends == 3
MaxParens  == 2

\* where the cell is: the row and column of the tests, and one other
Positions == { [row |-> 10, col |-> "C"], [row |-> 11, col |-> "D"] }

Alphabet == {"=", "(", ")", "+", "-", "*", "/", ".", " ", "0", "1", "I", "F"}

\* every text of up to MaxText characters
ShortTexts == UNION { [1..n -> Alphabet] : n \in 0..MaxText }

Tokens ==
    { <<"=">>, <<"(">>, <<")">>, <<"+">>, <<"*">>, <<"/">>, <<" ">>,
      <<"1">>, <<"-", "1">>, <<"2", ".", "5">>, <<"x">>,
      <<"I", "F">>, <<"S", "U", "M">>, <<"A", "V", "E", "R", "A", "G", "E">>,
      <<"C", "O", "U", "N", "T">>, <<"M", "I", "N">>, <<"M", "A", "X">>,
      <<"s", "u", "m">> }

RECURSIVE concat(_)
concat(texts) ==
    IF texts = <<>> THEN <<>> ELSE Head(texts) \o concat(Tail(texts))

\* every text made of up to MaxTokens tokens
TokenTexts == { concat(t) : t \in UNION { [1..n -> Tokens] : n \in 1..MaxTokens } }

\* an addend as the cell writes it, with the value it writes in tenths
Numerals ==
    { [text |-> <<"0">>,            tenths |-> 0,   blank |-> FALSE],
      [text |-> <<"1">>,            tenths |-> 10,  blank |-> FALSE],
      [text |-> <<" ", "1", " ">>,  tenths |-> 10,  blank |-> FALSE],
      [text |-> <<"1", "2">>,       tenths |-> 120, blank |-> FALSE],
      [text |-> <<"2", ".", "5">>,  tenths |-> 25,  blank |-> FALSE],
      [text |-> <<"7", ".", "0">>,  tenths |-> 70,  blank |-> FALSE] }

NegativeNumerals ==
    { [text |-> <<"-", "1">>,           tenths |-> 0 - 10, blank |-> FALSE],
      [text |-> <<"-", "0", ".", "5">>, tenths |-> 0 - 5,  blank |-> FALSE],
      [text |-> <<"-", "2", ".", "5">>, tenths |-> 0 - 25, blank |-> FALSE] }

\* nothing between two "+"
Blank == [text |-> <<>>, tenths |-> 0, blank |-> TRUE]

Addends == Numerals \cup NegativeNumerals \cup {Blank}

RECURSIVE total(_, _)
total(f, n) == IF n = 0 THEN 0 ELSE f[n] + total(f, n - 1)

\* the parentheses opened before and closed after each addend: balanced,
\* none closed before it is opened, MaxParens pairs at most
Groupings(n) ==
    { g \in [opens : [1..n -> 0..MaxParens], closes : [1..n -> 0..MaxParens]] :
        /\ total(g.opens, n) = total(g.closes, n)
        /\ total(g.opens, n) <= MaxParens
        /\ \A k \in 1..n : total(g.closes, k) <= total(g.opens, k) }

repeat(c, n) == [i \in 1..n |-> c]

RECURSIVE render(_, _, _)
render(addends, g, k) ==
    IF k > Len(addends) THEN <<>>
    ELSE (IF k > 1 THEN <<"+">> ELSE <<>>)
         \o repeat("(", g.opens[k]) \o addends[k].text \o repeat(")", g.closes[k])
         \o render(addends, g, k + 1)

\* the formulas: addends joined by "+", grouped, with or without a leading "="
Formulas ==
    { [addends |-> a, grouping |-> g, prefix |-> e] :
        a \in UNION { [1..n -> Addends] : n \in 1..MaxAddends },
        g \in UNION { Groupings(n) : n \in 1..MaxAddends },
        e \in { <<>>, <<"=">> } }

FormulaText(f) == f.prefix \o render(f.addends, f.grouping, 1)

\* no request has reached the store and no workbook is held
NoWorkbook == [year |-> ImportYear, sheet_categories |-> <<>>]

StoreAtRest ==
    /\ validated = NotValidated
    /\ categories = StoredCategories
    /\ payees = {}
    /\ templates = {}
    /\ entries = {}
    /\ transactions = {}
    /\ parsed_data = NoWorkbook
    /\ category_mapping = <<>>
    /\ last = [op |-> "none", exc |-> "none", ret |-> NoResult]

FormulaInit ==
    /\ StoreAtRest
    /\ column_c = NoColumn /\ sections = NotScanned /\ retry = NoRetry /\ trends = NoTrends /\ config = NoConfig
    /\ workbook = NoFile
    /\ parse_result = NotParsed
    /\ extracted = NotExtracted
    /\ \E p \in Positions : row_num = p.row /\ col_name = p.col
    /\ \/ /\ cell_value = NoCell
          /\ written = NotWritten
       \/ /\ \E t \in ShortTexts \cup TokenTexts :
                cell_value = [none |-> FALSE, text |-> t]
          /\ written = NotWritten
       \/ \E f \in Formulas :
             /\ DOMAIN f.grouping.opens = DOMAIN f.addends
             /\ cell_value = [none |-> FALSE, text |-> FormulaText(f)]
             /\ written = [sum |-> TRUE, addends |-> f.addends]

\* _extract_amounts_from_formula(cell_value, row_num, col_name)
Extract ==
    /\ extracted = NotExtracted
    /\ extracted' = extract_amounts_from_formula(cell_value, row_num, col_name)
    /\ UNCHANGED <<validated, cell_value, row_num, col_name, written,
                   workbook, parse_result, column_c, sections,
            retry,
            trends,
            config>>
    /\ UNCHANGED <<categories, payees, templates, entries, transactions,
                   parsed_data, category_mapping, last>>

FormulaNext == Extract

SpecFormula == FormulaInit /\ [][FormulaNext]_vars

\* ------------------------------------------- import_logic.py: the parser
MaxFilled == 2   \* most cells of one workbook that are not empty

Layouts == {"hovedark", "original"}

\* month_columns: the column of each month, January first
HovedarkColumns == <<"F", "G", "H", "I", "J", "K", "L", "M", "N", "O", "P", "Q">>
OriginalColumns == <<"C", "D", "E", "F", "G", "H", "I", "J", "K", "L", "M", "N">>

month_columns(layout) ==
    IF layout = "hovedark" THEN HovedarkColumns ELSE OriginalColumns

\* the columns with cells in the workbooks: the first and the last month
\* column of the layout and the column after the last
SheetColumns(layout) ==
    IF layout = "hovedark" THEN {"F", "Q", "R"} ELSE {"C", "N", "O"}

\* the rows of the section markers and of the category blocks
utgifter_row(layout)  == IF layout = "hovedark" THEN 10 ELSE 16
inntekter_row(layout) == IF layout = "hovedark" THEN 5 ELSE 7

CategoryRow(layout, i) ==
    IF layout = "hovedark" THEN 1 + 5 * i
    ELSE IF i = 1 THEN 8 ELSE utgifter_row(layout) + 1

BudgetRow(layout, row_idx)  == IF layout = "hovedark" THEN row_idx ELSE row_idx + 1
ActualsRow(layout, row_idx) == IF layout = "hovedark" THEN row_idx + 1 ELSE row_idx + 2

\* the type by position of a sheet whose Utgifter section comes first
hovedark_type_utgifter_first(row_idx, utgifter, inntekter) ==
    IF row_idx > inntekter THEN "income"
    ELSE IF row_idx > utgifter THEN "expenses" ELSE "skipped"

\* _parse_hovedark_format: the type of a category row by its position
\* relative to the two marker rows
hovedark_type(row_idx, utgifter, inntekter) ==
    IF /\ row_idx > utgifter
       /\ (row_idx < inntekter \/ inntekter < utgifter)
    THEN "expenses"
    ELSE IF row_idx > inntekter THEN "income" ELSE "skipped"

\* the type of the category by the section its row stands in
category_type(layout, row_idx) ==
    IF layout = "hovedark"
    THEN hovedark_type(row_idx, utgifter_row(layout), inntekter_row(layout))
    ELSE IF row_idx < utgifter_row(layout) THEN "income" ELSE "expenses"

\* cell.value: None, a number, or the text of a formula or a label
EmptyCell == [kind |-> "none", text |-> <<>>]

GoodCells ==
    { [kind |-> "number", text |-> <<"0">>],
      [kind |-> "number", text |-> <<"1">>],
      [kind |-> "text",   text |-> <<"=", "0">>],
      [kind |-> "text",   text |-> <<"=", "2", "+", "1">>] }

BadCells ==
    { [kind |-> "text",   text |-> <<"=", "S", "U", "M", "(", "1", ")">>],
      [kind |-> "text",   text |-> <<"=", "1", "*", "1">>],
      [kind |-> "number", text |-> <<"-", "1">>],
      [kind |-> "text",   text |-> <<"x">>] }

FilledCells == GoodCells \cup BadCells

\* the month cells of the workbook: block, row of the block, column
CellPlaces(layout) ==
    (1..MaxSheetCats) \X {"budget", "actuals"} \X SheetColumns(layout)

Fillings(layout) ==
    UNION { [P -> FilledCells] :
              P \in { S \in SUBSET CellPlaces(layout) : Cardinality(S) <= MaxFilled } }

RowOf(filling, layout, i, which) ==
    [c \in SheetColumns(layout) |->
        IF <<i, which, c>> \in DOMAIN filling THEN filling[<<i, which, c>>]
        ELSE EmptyCell]

Workbook(layout, filling) ==
    [layout |-> layout,
     blocks |-> [i \in 1..MaxSheetCats |->
                   [name    |-> i,
                    budget  |-> RowOf(filling, layout, i, "budget"),
                    actuals |-> RowOf(filling, layout, i, "actuals")]]]

Workbooks ==
    { Workbook(l, f) : l \in {"hovedark"}, f \in Fillings("hovedark") }
    \cup { Workbook(l, f) : l \in {"original"}, f \in Fillings("original") }

\* sheet.cell(row, col): a cell nobody filled is empty
cell_at(cells, col) == IF col \in DOMAIN cells THEN cells[col] ELSE EmptyCell

\* if cell.value: None, "" and the number 0 are false
truthy(cell) ==
    /\ cell.kind # "none"
    /\ cell.text # <<>>
    /\ ~(cell.kind = "number" /\ cell.text \in { <<"0">>, <<"0", ".", "0">> })

value(cell) == [none |-> cell.kind = "none", text |-> cell.text]

\* the first amount where sum(amounts) adds them all
first_amount(amounts) == amounts[1]

\* sum(amounts)
RECURSIVE sum(_)
sum(amounts) == IF amounts = <<>> THEN 0 ELSE Head(amounts) + sum(Tail(amounts))

\* the budget loop of the Hovedark layout, from this month on
RECURSIVE hovedark_budget(_, _, _)
hovedark_budget(cells, row_idx, month) ==
    IF month > Len(HovedarkColumns) THEN <<>>
    ELSE LET col_letter == HovedarkColumns[month]
             cell    == cell_at(cells, col_letter)
             rest    == hovedark_budget(cells, row_idx, month + 1)
             amounts == extract_amounts_from_formula(value(cell), row_idx, col_letter)
         IN  IF /\ truthy(cell)
                /\ amounts.exc = "none"
                /\ amounts.amounts # <<>>
                /\ sum(amounts.amounts) # 0
             THEN (month :> sum(amounts.amounts)) @@ rest
             ELSE rest

\* the budget loops of the original layout, from this month on
RECURSIVE original_budget(_, _, _)
original_budget(cells, budget_row, month) ==
    IF month > Len(OriginalColumns) THEN <<>>
    ELSE LET col     == OriginalColumns[month]
             cell    == cell_at(cells, col)
             rest    == original_budget(cells, budget_row, month + 1)
             amounts == extract_amounts_from_formula(value(cell), budget_row, col)
         IN  IF /\ truthy(cell)
                /\ amounts.exc = "none"
                /\ amounts.amounts # <<>>
             THEN (month :> sum(amounts.amounts)) @@ rest
             ELSE rest

\* the actuals loop with a refused cell skipped, as the budget loops do
RECURSIVE read_actuals_skipping(_, _, _, _, _)
read_actuals_skipping(columns, cells, actuals_row, month, actuals) ==
    IF month > Len(columns) THEN [exc |-> "none", detail |-> "", row |-> 0,
                                  col |-> "", actuals |-> actuals]
    ELSE LET cell    == cell_at(cells, columns[month])
             amounts == extract_amounts_from_formula(value(cell), actuals_row,
                                                     columns[month])
         IN  IF truthy(cell) /\ amounts.exc = "none" /\ amounts.amounts # <<>>
             THEN read_actuals_skipping(columns, cells, actuals_row, month + 1,
                                        (month :> amounts.amounts) @@ actuals)
             ELSE read_actuals_skipping(columns, cells, actuals_row, month + 1,
                                        actuals)

\* the actuals loop of either layout, from this month on: the first cell the
\* reader refuses raises
RECURSIVE read_actuals(_, _, _, _, _)
read_actuals(columns, cells, actuals_row, month, actuals) ==
    IF month > Len(columns) THEN [exc |-> "none", detail |-> "", row |-> 0,
                                  col |-> "", actuals |-> actuals]
    ELSE LET col     == columns[month]
             cell    == cell_at(cells, col)
             amounts == extract_amounts_from_formula(value(cell), actuals_row, col)
         IN  IF ~truthy(cell)
             THEN read_actuals(columns, cells, actuals_row, month + 1, actuals)
             ELSE IF amounts.exc # "none"
             THEN [exc |-> amounts.exc, detail |-> amounts.detail,
                   row |-> amounts.row, col |-> amounts.col, actuals |-> <<>>]
             ELSE IF amounts.amounts # <<>>
             THEN read_actuals(columns, cells, actuals_row, month + 1,
                               (month :> amounts.amounts) @@ actuals)
             ELSE read_actuals(columns, cells, actuals_row, month + 1, actuals)

failed(exc, detail, category_name, row, col) ==
    [exc |-> exc, detail |-> detail, category |-> category_name,
     row |-> row, col |-> col, year |-> 0, sheet_categories |-> <<>>]

\* a category is kept whatever it holds
keep_all(budget, actuals) == FALSE

\* if not budget and not actuals: the category has no data
no_data(budget, actuals) == DOMAIN budget = {} /\ DOMAIN actuals = {}

\* the scan over the category blocks, from block i on
RECURSIVE scan_categories(_, _, _, _)
scan_categories(wb, year, i, sheet_categories) ==
    IF i > Len(wb.blocks)
    THEN IF sheet_categories = <<>>
         THEN failed("No categories found", "", 0, 0, "")
         ELSE [exc |-> "none", detail |-> "", category |-> 0, row |-> 0,
               col |-> "", year |-> year, sheet_categories |-> sheet_categories]
    ELSE LET block   == wb.blocks[i]
             row_idx == CategoryRow(wb.layout, i)
             budget  == IF wb.layout = "hovedark"
                        THEN hovedark_budget(block.budget,
                                             BudgetRow(wb.layout, row_idx), 1)
                        ELSE original_budget(block.budget,
                                             BudgetRow(wb.layout, row_idx), 1)
             actuals == read_actuals(month_columns(wb.layout), block.actuals,
                                     ActualsRow(wb.layout, row_idx), 1, <<>>)
         IN  IF category_type(wb.layout, row_idx) = "skipped"
             THEN scan_categories(wb, year, i + 1, sheet_categories)
             ELSE IF actuals.exc # "none"
             THEN failed(actuals.exc, actuals.detail, block.name,
                         actuals.row, actuals.col)
             ELSE IF no_data(budget, actuals.actuals)
             THEN scan_categories(wb, year, i + 1, sheet_categories)
             ELSE scan_categories(wb, year, i + 1,
                      Append(sheet_categories,
                             [name    |-> block.name,
                              type    |-> category_type(wb.layout, row_idx),
                              budget  |-> budget,
                              actuals |-> actuals.actuals]))

parse_hovedark_format(wb, year) == scan_categories(wb, year, 1, <<>>)

parse_original_format(wb, year) == scan_categories(wb, year, 1, <<>>)

parse_excel_file(wb, year) ==
    IF ~validate_year(year) THEN failed("Invalid year", "", 0, 0, "")
    ELSE IF wb.layout = "hovedark" THEN parse_hovedark_format(wb, year)
    ELSE parse_original_format(wb, year)

ParseInit ==
    /\ StoreAtRest
    /\ column_c = NoColumn /\ sections = NotScanned /\ retry = NoRetry /\ trends = NoTrends /\ config = NoConfig
    /\ cell_value = NoCell /\ row_num = 0 /\ col_name = ""
    /\ written = NotWritten /\ extracted = NotExtracted
    /\ workbook \in Workbooks
    /\ parse_result = NotParsed

\* parse_excel_file(file_path, year)
Parse ==
    /\ parse_result = NotParsed
    /\ \E year \in Years : parse_result' = parse_excel_file(workbook, year)
    /\ UNCHANGED <<validated, cell_value, row_num, col_name, written,
                   extracted, workbook, column_c, sections,
            retry,
            trends,
            config>>
    /\ UNCHANGED <<categories, payees, templates, entries, transactions,
                   parsed_data, category_mapping, last>>

ParseNext == Parse

SpecParse == ParseInit /\ [][ParseNext]_vars

\* ------------------------------- import_logic.py: the sections of Hovedark
MaxSheetRow == 5   \* rows 1..MaxSheetRow of the sheet are scanned

\* what a row holds in column C, and whether it is a category row (column D
\* holds "Budsjett"): a section marker, a category name, a category name
\* with the word of a marker in it, or nothing of interest
Labels ==
    { [text |-> "Utgifter",       budsjett |-> FALSE],
      [text |-> "Inntekter",      budsjett |-> FALSE],
      [text |-> "Mat",            budsjett |-> TRUE],
      [text |-> "Andre Utgifter", budsjett |-> TRUE],
      [text |-> "Balanse",        budsjett |-> FALSE] }

\* "Utgifter" in str(cell_c), and "Inntekter" in it when "Utgifter" is not
holds_marker(label, marker) ==
    IF marker = "Utgifter" THEN label.text \in {"Utgifter", "Andre Utgifter"}
    ELSE label.text = "Inntekter"

Columns == [1..MaxSheetRow -> Labels]

\* the last row of the column that holds the marker, 0 (None) without one
last_row(column, marker) ==
    LET found == { r \in DOMAIN column : holds_marker(column[r], marker) }
    IN  IF found = {} THEN 0 ELSE CHOOSE r \in found : \A q \in found : q <= r

\* _parse_hovedark_format up to the type of each category row
find_sections(column) ==
    LET utgifter  == last_row(column, "Utgifter")
        inntekter == last_row(column, "Inntekter")
    IN  IF utgifter = 0
        THEN [exc |-> "Could not find 'Utgifter' section",
              utgifter_row |-> 0, inntekter_row |-> 0, types |-> <<>>]
        ELSE IF inntekter = 0
        THEN [exc |-> "Could not find 'Inntekter' section",
              utgifter_row |-> 0, inntekter_row |-> 0, types |-> <<>>]
        ELSE [exc |-> "none", utgifter_row |-> utgifter,
              inntekter_row |-> inntekter,
              types |-> [row_idx \in DOMAIN column |->
                           IF column[row_idx].budsjett
                           THEN hovedark_type(row_idx, utgifter, inntekter)
                           ELSE "no category"]]

SectionsInit ==
    /\ StoreAtRest
    /\ cell_value = NoCell /\ row_num = 0 /\ col_name = ""
    /\ written = NotWritten /\ extracted = NotExtracted
    /\ workbook = NoFile /\ parse_result = NotParsed
    /\ column_c \in Columns
    /\ sections = NotScanned /\ retry = NoRetry /\ trends = NoTrends /\ config = NoConfig

\* the scan of _parse_hovedark_format for the sections and category rows
FindSections ==
    /\ sections = NotScanned
    /\ sections' = find_sections(column_c)
    /\ UNCHANGED <<validated, cell_value, row_num, col_name, written,
                   extracted, workbook, parse_result, column_c, retry,
            trends,
            config>>
    /\ UNCHANGED <<categories, payees, templates, entries, transactions,
                   parsed_data, category_mapping, last>>

SectionsNext == FindSections

SpecSections == SectionsInit /\ [][SectionsNext]_vars

\* --------------------------------------------- the ledger: every handler
\* The handlers of the category, payee, template, budget, transaction and
\* import routes, served one after another in any order.
LedgerYears == {ImportYear, ImportYear + 1}

\* the ledger starts with one category; a second can be created
LedgerCategories  == { c \in StoredCategories : c.id = 1 }
LedgerCategoryIds == {1, 2}
CategoryNames == {" Food", " "}
PayeeNames    == {"Shop", ""}
PayeeIds      == {1, 2}
RowIds        == 1..MaxUid

LedgerTemplateRequests ==
    { [year |-> y, category_id |-> c] :
        y \in LedgerYears, c \in LedgerCategoryIds }
        \cup { [year |-> MIN_YEAR - 1, category_id |-> 1] }

CopyRequests ==
    { [from_year |-> f, to_year |-> t] : f, t \in LedgerYears }
        \cup { [from_year |-> MIN_YEAR - 1, to_year |-> ImportYear],
               [from_year |-> ImportYear, to_year |-> MAX_YEAR + 1] }

LedgerDates ==
    { [year |-> ImportYear, month |-> MIN_MONTH, day |-> 1],
      [year |-> ImportYear, month |-> MIN_MONTH, day |-> 0] }

\* the workbooks of the ledger: one category with one budget figure or one
\* transaction
LedgerInputs ==
    { p \in ParsedInputs :
        /\ Len(p.sheet_categories) = 1
        /\ Cells(p.sheet_categories[1]) = 1
        /\ DOMAIN p.sheet_categories[1].budget \subseteq {MIN_MONTH}
        /\ DOMAIN p.sheet_categories[1].actuals \subseteq {MIN_MONTH}
        /\ \A m \in DOMAIN p.sheet_categories[1].actuals :
              Len(p.sheet_categories[1].actuals[m]) = 1 }

LedgerMappings ==
    { m \in Mappings : DOMAIN m = {1} /\ m[1] \in LedgerCategoryIds }

LedgerInit ==
    /\ NoCellRead
    /\ validated = NotValidated
    /\ categories = LedgerCategories
    /\ payees = {}
    /\ templates = {}
    /\ entries = {}
    /\ transactions = {}
    /\ parsed_data = NoWorkbook
    /\ category_mapping = <<>>
    /\ last = [op |-> "none", exc |-> "none", ret |-> NoResult]

\* the handler left the store s; generated ids stay within RowIds
LedgerCommit(s) ==
    /\ Cardinality(s.payees) + Cardinality(s.templates) + Cardinality(s.entries)
         + Cardinality(s.transactions) <= MaxLedgerRows
    /\ categories' = s.categories
    /\ payees' = s.payees
    /\ templates' = s.templates
    /\ entries' = s.entries
    /\ transactions' = s.transactions
    /\ \A r \in s.categories \cup s.payees \cup s.templates : r.id \in RowIds
    /\ \A r \in s.entries : r.id \in RowIds
    /\ \A r \in s.transactions : r.id \in RowIds

Served(op, r) ==
    /\ LedgerCommit(r.store)
    /\ last' = [op |-> op, exc |-> r.exc, ret |-> NoResult]
    /\ UNCHANGED <<parsed_data, category_mapping>>

CreateCategory(name, type) ==
    Served("create_category", create_category(Store, name, type))

UpdateCategory(category_id, name) ==
    Served("update_category", update_category(Store, category_id, name))

LedgerDeleteCategory(category_id) ==
    Served("delete_category", delete_category(Store, category_id))

CreatePayee(name, type) ==
    Served("create_payee", business_create_payee(Store, name, type))

UpdatePayee(payee_id, name) ==
    Served("update_payee", update_payee(Store, payee_id, name))

DeletePayee(payee_id) ==
    Served("delete_payee", delete_payee(Store, payee_id))

LedgerAddCategoryToTemplate(req) ==
    Served("add_category_to_template",
           add_category_to_template(Store, req.year, req.category_id))

RemoveCategoryFromTemplate(req) ==
    Served("remove_category_from_template",
           remove_category_from_template(Store, req.year, req.category_id))

CopyBudgetTemplate(req) ==
    LET r == copy_budget_template(Store, req.from_year, req.to_year)
    IN  /\ LedgerCommit(r.store)
        /\ last' = [op |-> "copy_budget_template", exc |-> r.exc,
                    ret |-> [NoResult EXCEPT
                               !.from_year = req.from_year,
                               !.to_year = req.to_year,
                               !.copied_count = r.copied_count]]
        /\ UNCHANGED <<parsed_data, category_mapping>>

LedgerSaveBudgetEntry(req) ==
    Served("save_budget_entry",
           save_budget_entry(Store, req.category_id, req.year, req.month,
                             req.amount, req.comment, 0))

LedgerDeleteBudgetEntry(entry_id) ==
    Served("delete_budget_entry", delete_budget_entry(Store, entry_id))

CreateTransaction(category_id, date, payee_id) ==
    Served("create_transaction",
           business_create_transaction(Store, category_id, date, 1, payee_id))

UpdateTransaction(transaction_id, date, payee_id) ==
    Served("update_transaction",
           update_transaction(Store, transaction_id, date, 1, payee_id))

DeleteTransaction(transaction_id) ==
    Served("delete_transaction", delete_transaction(Store, transaction_id))

LedgerImport(parsed, mapping, fault) ==
    LET r == import_budget_and_transactions(
                 Store, parsed, mapping, <<mapping[1]>>, fault,
                 [k \in 1..BudgetFigures(parsed.sheet_categories) |-> 0])
    IN  /\ LedgerCommit(r.store)
        /\ last' = [op |-> "import_budget_and_transactions", exc |-> r.exc,
                    ret |-> [NoResult EXCEPT
                               !.payee_id = r.payee_id,
                               !.budget_count = r.budget_count,
                               !.transaction_count = r.transaction_count,
                               !.template_count = r.template_count]]
        /\ UNCHANGED <<parsed_data, category_mapping>>

LedgerNext ==
    \/ \E name \in CategoryNames, type \in {"expenses", "savings"} :
           CreateCategory(name, type) /\ UNCHANGED aside
    \/ \E category_id \in LedgerCategoryIds, name \in CategoryNames :
           UpdateCategory(category_id, name) /\ UNCHANGED aside
    \/ \E category_id \in LedgerCategoryIds :
           LedgerDeleteCategory(category_id) /\ UNCHANGED aside
    \/ \E name \in PayeeNames, type \in {"Actual", "Other"} :
           CreatePayee(name, type) /\ UNCHANGED aside
    \/ \E payee_id \in PayeeIds, name \in PayeeNames :
           UpdatePayee(payee_id, name) /\ UNCHANGED aside
    \/ \E payee_id \in PayeeIds :
           DeletePayee(payee_id) /\ UNCHANGED aside
    \/ \E req \in LedgerTemplateRequests :
           LedgerAddCategoryToTemplate(req) /\ UNCHANGED aside
    \/ \E req \in LedgerTemplateRequests :
           RemoveCategoryFromTemplate(req) /\ UNCHANGED aside
    \/ \E req \in CopyRequests :
           CopyBudgetTemplate(req) /\ UNCHANGED aside
    \/ \E req \in EntryRequests :
           LedgerSaveBudgetEntry(req) /\ UNCHANGED aside
    \/ \E entry_id \in RowIds :
           LedgerDeleteBudgetEntry(entry_id) /\ UNCHANGED aside
    \/ \E category_id \in LedgerCategoryIds, date \in LedgerDates,
          payee_id \in PayeeIds \cup {NoPayee} :
           CreateTransaction(category_id, date, payee_id) /\ UNCHANGED aside
    \/ \E transaction_id \in RowIds, date \in LedgerDates,
          payee_id \in PayeeIds \cup {NoPayee} :
           UpdateTransaction(transaction_id, date, payee_id) /\ UNCHANGED aside
    \/ \E transaction_id \in RowIds :
           DeleteTransaction(transaction_id) /\ UNCHANGED aside
    \/ \E parsed \in LedgerInputs, mapping \in LedgerMappings,
          fault \in 0..MaxLedgerFault :
           LedgerImport(parsed, mapping, fault) /\ UNCHANGED aside

SpecLedger == LedgerInit /\ [][LedgerNext]_vars

\* ------------------------------------------ the budget template requests
\* The template page alone: memberships of the stored categories in two
\* years are added, removed and copied.
TemplatesInit ==
    /\ NoCellRead
    /\ validated = NotValidated
    /\ categories = StoredCategories
    /\ payees = {}
    /\ templates = {}
    /\ entries = {}
    /\ transactions = {}
    /\ parsed_data = NoWorkbook
    /\ category_mapping = <<>>
    /\ last = [op |-> "none", exc |-> "none", ret |-> NoResult]

AllTemplateRequests ==
    { [year |-> y, category_id |-> c] : y \in LedgerYears, c \in CategoryIds }
        \cup { [year |-> MIN_YEAR - 1, category_id |-> 1] }

\* the handler left the store s; the template table stays within its bounds
TemplatesCommit(s) ==
    /\ Cardinality(s.templates) <= MaxTemplates
    /\ \A t \in s.templates : t.id <= MaxTemplateId
    /\ templates' = s.templates
    /\ UNCHANGED <<categories, payees, entries, transactions,
                   parsed_data, category_mapping>>

TemplatesAdd(req) ==
    LET r == add_category_to_template(Store, req.year, req.category_id)
    IN  /\ TemplatesCommit(r.store)
        /\ last' = [op |-> "add_category_to_template", exc |-> r.exc,
                    ret |-> NoResult]

TemplatesRemove(req) ==
    LET r == remove_category_from_template(Store, req.year, req.category_id)
    IN  /\ TemplatesCommit(r.store)
        /\ last' = [op |-> "remove_category_from_template", exc |-> r.exc,
                    ret |-> NoResult]

TemplatesCopy(req) ==
    LET r == copy_budget_template(Store, req.from_year, req.to_year)
    IN  /\ TemplatesCommit(r.store)
        /\ last' = [op |-> "copy_budget_template", exc |-> r.exc,
                    ret |-> [NoResult EXCEPT
                               !.from_year = req.from_year,
                               !.to_year = req.to_year,
                               !.copied_count = r.copied_count]]

TemplatesNext ==
    \/ \E req \in AllTemplateRequests : TemplatesAdd(req) /\ UNCHANGED aside
    \/ \E req \in AllTemplateRequests : TemplatesRemove(req) /\ UNCHANGED aside
    \/ \E req \in CopyRequests : TemplatesCopy(req) /\ UNCHANGED aside

SpecTemplates == TemplatesInit /\ [][TemplatesNext]_vars

\* -------------------------- business_logic.py: calculate_category_trends
\* the months the trend loop goes through
TrendMonths == 1..MaxMonth

Abs(x) == IF x < 0 THEN 0 - x ELSE x

\* abs((current_value - previous_value) / previous_value * 100) <= percent
within(current_value, previous_value, percent) ==
    Abs(current_value - previous_value) * 100 <= percent * Abs(previous_value)

\* calculate_trend for two values that are both data
compare(current_value, previous_value, type) ==
    LET is_increase == current_value > previous_value
        color == IF type = "income"
                 THEN (IF is_increase THEN "success" ELSE "danger")
                 ELSE (IF ~is_increase THEN "success" ELSE "danger")
    IN  IF previous_value = 0 /\ current_value = 0
        THEN [arrow |-> "right", color |-> "secondary"]
        ELSE IF previous_value # 0 /\ within(current_value, previous_value, 5)
        THEN [arrow |-> "right", color |-> "secondary"]
        ELSE IF previous_value # 0 /\ within(current_value, previous_value, 25)
        THEN [arrow |-> IF is_increase THEN "up-right" ELSE "down-right",
              color |-> color]
        ELSE [arrow |-> IF is_increase THEN "up" ELSE "down", color |-> color]

\* a value a dict or a list may lack: None, or the value
None      == [none |-> TRUE, value |-> 0]
Some(x)   == [none |-> FALSE, value |-> x]

calculate_trend(current_value, previous_value, type) ==
    IF current_value.none THEN NoArrow
    ELSE IF previous_value.none THEN NoArrow
    ELSE compare(current_value.value, previous_value.value, type)

\* the budget amount of a month read as None when no entry is stored
budget_amount_or_none(budget, month) ==
    IF month \in DOMAIN budget THEN Some(budget[month]) ELSE None

\* budget.get(month, {}).get('amount', 0)
budget_amount(budget, month) ==
    IF month \in DOMAIN budget THEN Some(budget[month]) ELSE Some(0)

\* sum(t['amount'] for t in month_transactions) if there are any, else None
actual_amount(month_transactions_of, month) ==
    IF month \in DOMAIN month_transactions_of
       /\ Len(month_transactions_of[month]) > 0
    THEN Some(sum(month_transactions_of[month]))
    ELSE None

\* the yearly total of the amounts a dict holds, None when it holds none
RECURSIVE total_of(_, _)
total_of(amounts, left) ==
    IF left = {} THEN 0
    ELSE LET month == CHOOSE m \in left : TRUE
         IN  (IF amounts[month].none THEN 0 ELSE amounts[month].value)
                 + total_of(amounts, left \ {month})

budget_total(budget) ==
    IF \E month \in TrendMonths : month \in DOMAIN budget
    THEN Some(total_of([m \in TrendMonths |-> budget_amount_or_none(budget, m)],
                       TrendMonths))
    ELSE None

actual_total(month_transactions_of) ==
    IF \E month \in TrendMonths : ~actual_amount(month_transactions_of, month).none
    THEN Some(total_of([m \in TrendMonths |->
                           actual_amount(month_transactions_of, m)], TrendMonths))
    ELSE None

calculate_category_trends(t) ==
    IF ~validate_year(t.year) THEN [t EXCEPT !.exc = "ValueError"]
    ELSE IF ~t.found THEN [t EXCEPT !.exc = "ValueError"]
    ELSE IF ~validate_year(t.year - 1)
    THEN [t EXCEPT !.exc = "none",
                   !.months = [m \in TrendMonths |->
                                  [budget |-> NoArrow, actual |-> NoArrow]]]
    ELSE [t EXCEPT
            !.exc = "none",
            !.months = [m \in TrendMonths |->
                [budget |-> calculate_trend(
                                budget_amount(t.current_budget, m),
                                budget_amount(t.previous_budget, m), t.type),
                 actual |-> calculate_trend(
                                actual_amount(t.current_transactions, m),
                                actual_amount(t.previous_transactions, m),
                                t.type)]],
            !.total = [budget |-> calculate_trend(
                                      budget_total(t.current_budget),
                                      budget_total(t.previous_budget), t.type),
                       actual |-> calculate_trend(
                                      actual_total(t.current_transactions),
                                      actual_total(t.previous_transactions),
                                      t.type)]]

\* the budget entries of a category in one year, by month, and the amounts
\* of its transactions, by month
TrendBudgets == UNION { [D -> {0, 20, 21}] : D \in SUBSET TrendMonths }
TrendTransactions ==
    UNION { [D -> {<<0>>, <<20, 6>>}] : D \in SUBSET TrendMonths }

TrendsInit ==
    /\ StoreAtRest
    /\ cell_value = NoCell /\ row_num = 0 /\ col_name = ""
    /\ written = NotWritten /\ extracted = NotExtracted
    /\ workbook = NoFile /\ parse_result = NotParsed
    /\ column_c = NoColumn /\ sections = NotScanned /\ retry = NoRetry
    /\ config = NoConfig
    /\ \E year \in {ImportYear, MIN_YEAR, MIN_YEAR - 1}, found \in BOOLEAN,
          type \in Types,
          current_budget \in TrendBudgets, previous_budget \in TrendBudgets,
          current_transactions \in TrendTransactions,
          previous_transactions \in TrendTransactions :
          /\ (year # ImportYear \/ ~found) =>
                /\ type = "income"
                /\ previous_budget = <<>> /\ previous_transactions = <<>>
                /\ current_transactions = <<>>
                /\ DOMAIN current_budget = {MIN_MONTH}
          /\ trends = [NoTrends EXCEPT
                          !.exc = "called", !.year = year, !.found = found,
                          !.type = type,
                          !.current_budget = current_budget,
                          !.previous_budget = previous_budget,
                          !.current_transactions = current_transactions,
                          !.previous_transactions = previous_transactions]

CalculateCategoryTrends ==
    /\ trends.exc = "called"
    /\ trends' = calculate_category_trends(trends)
    /\ UNCHANGED <<categories, payees, templates, entries, transactions,
                   parsed_data, category_mapping, last, validated, cell_value,
                   row_num, col_name, written, extracted, workbook,
                   parse_result, column_c, sections, retry, config>>

TrendsNext == CalculateCategoryTrends

SpecTrends == TrendsInit /\ [][TrendsNext]_vars

\* ------------------------------ business_logic.py: the configuration cache
\* config.stored is the configuration table as a dict, config.cache is
\* _config_cache, config.cache_timestamp is _cache_timestamp and config.now
\* the wall clock in seconds.  config.returned is the dict the last
\* get_all_configuration handed to its caller and config.shared tells
\* whether that dict is the very object _config_cache refers to.
\* config.partial records that an update_configuration raised after it had
\* written a key and that the cache has not been emptied or loaded since.
ConfigKeys   == {"currency_format", "date_format"}
ConfigValues == {"nok", "usd"}

\* a dict with the key set to the value
set_item(dict, key, setting) ==
    [k \in DOMAIN dict \cup {key} |-> IF k = key THEN setting ELSE dict[k]]

is_cache_valid(c) ==
    IF c.cache_timestamp = NoTime THEN FALSE
    ELSE c.now - c.cache_timestamp < CACHE_TIMEOUT

invalidate_config_cache(c) ==
    [c EXCEPT !.cache = <<>>, !.cache_timestamp = NoTime, !.partial = FALSE]

\* return _config_cache.copy()
answer_from_cache(c) ==
    [c EXCEPT !.op = "get_all_configuration", !.exc = "none",
              !.from_cache = TRUE, !.returned = c.cache, !.shared = FALSE]

\* fault: the read of the table raises OperationalError
get_all_configuration(c, fault) ==
    IF is_cache_valid(c) /\ c.cache # <<>>
    THEN answer_from_cache(c)
    ELSE IF fault
    THEN [c EXCEPT !.op = "get_all_configuration",
                   !.exc = "OperationalError", !.from_cache = FALSE]
    ELSE [c EXCEPT !.op = "get_all_configuration", !.exc = "none",
                   !.from_cache = FALSE,
                   !.cache = c.stored, !.cache_timestamp = c.now,
                   !.returned = c.stored, !.shared = FALSE,
                   !.partial = FALSE]

\* the loop of update_configuration over config_data.items(); the storage
\* calls for item number fault raise OperationalError
RECURSIVE update_items(_, _, _, _)
update_items(c, items, k, fault) ==
    IF k > Len(items) THEN c
    ELSE IF k = fault
    THEN [c EXCEPT !.exc = "OperationalError",
                   !.partial = @ \/ (k > 1 /\ c.cache_timestamp # NoTime)]
    ELSE update_items([c EXCEPT !.stored = set_item(@, items[k].key,
                                                    items[k].value)],
                      items, k + 1, fault)

update_configuration(c, items, fault) ==
    LET done == update_items([c EXCEPT !.op = "update_configuration",
                                          !.exc = "none",
                                          !.from_cache = FALSE],
                                items, 1, fault)
    IN  IF done.exc # "none" THEN done
        ELSE invalidate_config_cache(done)

\* config_data: one or two keys with their new values, in dict order
ConfigItems ==
    { q \in UNION { [1..n -> [key : ConfigKeys, value : ConfigValues]] :
                      n \in 1..MaxConfigItems } :
        \A i, j \in DOMAIN q : q[i].key = q[j].key => i = j }

ConfigInit ==
    /\ StoreAtRest
    /\ cell_value = NoCell /\ row_num = 0 /\ col_name = ""
    /\ written = NotWritten /\ extracted = NotExtracted
    /\ workbook = NoFile /\ parse_result = NotParsed
    /\ column_c = NoColumn /\ sections = NotScanned /\ retry = NoRetry
    /\ trends = NoTrends
    /\ \E setting \in ConfigValues :
          config = [NoConfig EXCEPT
                      !.stored = set_item(<<>>, "currency_format", setting)]

ConfigRest == <<categories, payees, templates, entries, transactions,
                parsed_data, category_mapping, last, validated, cell_value,
                row_num, col_name, written, extracted, workbook, parse_result,
                column_c, sections, retry, trends>>

GetAllConfiguration(fault) ==
    /\ config' = get_all_configuration(config, fault)
    /\ UNCHANGED ConfigRest

UpdateConfiguration(items, fault) ==
    /\ config' = update_configuration(config, items, fault)
    /\ UNCHANGED ConfigRest

\* the caller changes the dict it was handed; a dict that is the cache
\* itself changes with it
ChangeReturned(key, setting) ==
    /\ config.op = "get_all_configuration" /\ config.exc = "none"
    /\ config' = [config EXCEPT
                     !.op = "caller",
                     !.returned = set_item(@, key, setting),
                     !.cache = IF config.shared
                               THEN set_item(config.returned, key, setting)
                               ELSE @]
    /\ UNCHANGED ConfigRest

\* time passes
Tick ==
    /\ config.now + ConfigTick <= MaxConfigClock
    /\ config' = [config EXCEPT !.now = @ + ConfigTick, !.op = "none",
                                 !.exc = "none", !.from_cache = FALSE]
    /\ UNCHANGED ConfigRest

ConfigNext ==
    \/ \E fault \in BOOLEAN : GetAllConfiguration(fault)
    \/ \E items \in ConfigItems, fault \in 0..MaxConfigItems :
           UpdateConfiguration(items, fault)
    \/ \E key \in ConfigKeys : ChangeReturned(key, "eur")
    \/ Tick

SpecConfig == ConfigInit /\ [][ConfigNext]_vars

\* ------------------------------------ database_manager.py: execute_with_retry
\* What one call of the wrapped operation does: it returns, raises
\* peewee.OperationalError, or raises another exception.
Outcomes == {"ok", "OperationalError", "IntegrityError"}

\* `except OperationalError` catches the exception; anything else falls to
\* `except Exception: raise`.
retryable_any(exc) == exc # "ok"

retryable(exc) == exc = "OperationalError"

\* `if attempt < MAX_RETRIES - 1`: another attempt follows this one
more_attempts(attempt) == attempt < MAX_RETRIES - 1

\* A call of execute_with_retry(operation): what the operation does at its
\* first, second and third call and what check_connection answers before the
\* second and third are given; the loop is at its first attempt.
\* Exceptions are told apart by the call that raised them.
RetryInit ==
    /\ StoreAtRest
    /\ cell_value = NoCell /\ row_num = 0 /\ col_name = ""
    /\ written = NotWritten /\ extracted = NotExtracted
    /\ workbook = NoFile /\ parse_result = NotParsed
    /\ column_c = NoColumn /\ sections = NotScanned
    /\ trends = NoTrends /\ config = NoConfig
    /\ \E outcomes \in [1..MAX_RETRIES -> Outcomes],
          healthy \in [1..MAX_RETRIES -> BOOLEAN] :
          retry = [NoRetry EXCEPT !.pc = "try", !.outcomes = outcomes,
                                  !.healthy = healthy]

RetryRest == <<categories, payees, templates, entries, transactions,
               parsed_data, category_mapping, last, validated, cell_value,
               row_num, col_name, written, extracted, workbook, parse_result,
               column_c, sections, trends,
            config>>

\* the try block of one attempt: the health check and reconnect of a later
\* attempt, then the call of the operation and the return of its result
Try ==
    /\ retry.pc = "try"
    /\ retry.attempt < MAX_RETRIES
    /\ LET call      == retry.calls + 1
           unhealthy == retry.attempt > 0 /\ ~retry.healthy[retry.attempt + 1]
           called    == [retry EXCEPT
                            !.calls = call,
                            !.reconnects = IF unhealthy THEN @ + 1 ELSE @]
       IN  retry' =
             IF retry.outcomes[call] = "ok"
             THEN [called EXCEPT !.pc = "returned", !.returned = call]
             ELSE IF retryable(retry.outcomes[call])
             THEN [called EXCEPT !.pc = "except OperationalError",
                                 !.last_exception = call]
             ELSE [called EXCEPT !.pc = "except Exception"]
    /\ UNCHANGED RetryRest

\* except OperationalError, with attempts left: sleep, reconnect, next attempt
Retry ==
    /\ retry.pc = "except OperationalError"
    /\ more_attempts(retry.attempt)
    /\ retry' = [retry EXCEPT !.pc = "try",
                              !.slept = @ + RETRY_DELAY,
                              !.reconnects = @ + 1,
                              !.attempt = @ + 1]
    /\ UNCHANGED RetryRest

\* except OperationalError at the last attempt: raise last_exception
Exhausted ==
    /\ retry.pc = "except OperationalError"
    /\ ~more_attempts(retry.attempt)
    /\ retry' = [retry EXCEPT !.pc = "raised",
                              !.raised = retry.last_exception]
    /\ UNCHANGED RetryRest

\* except Exception: raise
Reraise ==
    /\ retry.pc = "except Exception"
    /\ retry' = [retry EXCEPT !.pc = "raised", !.raised = retry.calls]
    /\ UNCHANGED RetryRest

\* (the `raise last_exception` after the loop is never reached: every
\* attempt returns or raises, or is followed by another attempt)
RetryNext == Try \/ Retry \/ Exhausted \/ Reraise

\* the interpreter runs the call until it returns or raises
SpecRetry == RetryInit /\ [][RetryNext]_vars /\ WF_vars(RetryNext)

\* ------------------------------------------------------------ properties
\* The workbook and the mapping of this run, as the properties speak of them.
Cats       == parsed_data.sheet_categories
ParsedYear == parsed_data.year
Mapped(i)  == Cats[i].name \in DOMAIN category_mapping
Target(i)  == category_mapping[Cats[i].name]

\* the budget figures <<i, month>> of the workbook, in sheet order
RECURSIVE FiguresFrom(_)
FiguresFrom(i) ==
    IF i > Len(Cats) THEN <<>>
    ELSE LET ks == KeysInOrder(DOMAIN Cats[i].budget)
         IN  [k \in 1..Len(ks) |-> <<i, ks[k]>>] \o FiguresFrom(i + 1)

Figures == FiguresFrom(1)

\* the elements <<i, month, j>> of the actuals lists, in sheet order
RECURSIVE CellElements(_, _)
CellElements(i, months) ==
    IF months = <<>> THEN <<>>
    ELSE [j \in 1..Len(Cats[i].actuals[Head(months)]) |-> <<i, Head(months), j>>]
             \o CellElements(i, Tail(months))

RECURSIVE ElementsFrom(_)
ElementsFrom(i) ==
    IF i > Len(Cats) THEN <<>>
    ELSE CellElements(i, KeysInOrder(DOMAIN Cats[i].actuals))
             \o ElementsFrom(i + 1)

Elements == ElementsFrom(1)

ElementAmount(el) == Cats[el[1]].actuals[el[2]][el[3]]

KeyOf(e)    == <<e.category_id, e.year, e.month>>
FigureKey(g) == <<Target(g[1]), ParsedYear, g[2]>>

\* the amount the last of the first n figures at key K carries
LastAmount(K, n) ==
    LET at == { k \in 1..n : FigureKey(Figures[k]) = K }
        k  == CHOOSE x \in at : \A y \in at : y <= x
    IN  Cats[Figures[k][1]].budget[Figures[k][2]]

ImportRan   == last'.op = "import_budget_and_transactions"
ImportOK    == ImportRan /\ last'.exc = "none"
ImportFailed == ImportRan /\ last'.exc # "none"
NewTransactions == transactions' \ transactions
ImportPayees == { p \in payees : p.name = ImportPayeeName }

\* the new transactions are, row for element, the first n actuals elements
NewTransactionsAre(n) ==
    /\ Cardinality(NewTransactions) = n
    /\ \A t \in NewTransactions :
           t.date.year = ParsedYear /\ t.date.day = 1
    /\ \A c \in CategoryIds, m \in Months, a \in Amounts :
           Cardinality({ t \in NewTransactions :
                           t.category_id = c /\ t.date.month = m /\ t.amount = a })
             = Cardinality({ k \in 1..n :
                               /\ Target(Elements[k][1]) = c
                               /\ Elements[k][2] = m
                               /\ ElementAmount(Elements[k]) = a })

\* the first n budget figures are in the store: a row that stood at a figure's
\* key keeps its id and takes the figure's amount, a NULL comment and a
\* time of the call; a free key gets one fresh row; every other row is as it was
FiguresUpserted(n) ==
    LET keys == { FigureKey(Figures[k]) : k \in 1..n }
        free == { K \in keys : ~\E e \in entries : KeyOf(e) = K }
        Now(t) == t \in Times /\ \A e \in entries : e.updated_at <= t
    IN    /\ \A e \in entries : KeyOf(e) \notin keys => e \in entries'
          /\ \A e \in entries : KeyOf(e) \in keys =>
                 \E t \in Times :
                     /\ Now(t)
                     /\ [e EXCEPT !.amount = LastAmount(KeyOf(e), n),
                                   !.comment = NoComment,
                                   !.updated_at = t] \in entries'
          /\ \A K \in free : \E f \in entries' :
                 /\ KeyOf(f) = K
                 /\ f.id \notin { e.id : e \in entries }
                 /\ f.amount = LastAmount(K, n)
                 /\ f.comment = NoComment
                 /\ Now(f.updated_at)
          /\ Cardinality(entries') = Cardinality(entries) + Cardinality(free)

\* C1 (store): no two budget entries share (category_id, year, month)
C1_OneEntryPerKey ==
    \A e, f \in entries : KeyOf(e) = KeyOf(f) => e = f

\* C1 (step): an import upserts every figure it writes
C1_ImportUpserts ==
    ImportRan => FiguresUpserted(last'.ret.budget_count)

\* C1: after any sequence of imports and save_budget_entry calls the store
\* holds at most one budget entry per (category_id, year, month); an import
\* that meets a row at a figure's key updates its amount, comment and
\* updated_at and keeps its id, and inserts a fresh row only at a free key.
C1_BudgetEntryUpsert ==
    []C1_OneEntryPerKey /\ [][C1_ImportUpserts]_vars

\* an import wrote two figures and the store holds one entry: the second
\* figure met the row of the first
C1_Witness ==
    /\ last.op = "import_budget_and_transactions" /\ last.exc = "none"
    /\ last.ret.budget_count = 2
    /\ Cardinality(entries) = 1

\* C2: an import with the same workbook and mapping, run again on the store
\* the previous run left, leaves the budget entries' keys and amounts as they
\* were and adds as many transactions again as one run creates, so n runs
\* hold n times the transactions of one.
C2_RerunDoublesTransactions ==
    [][ImportOK =>
          /\ Cardinality(transactions')
               = Cardinality(transactions) + Len(Elements)
          /\ (last.op = "import_budget_and_transactions" /\ last.exc = "none")
               => { <<KeyOf(e), e.amount>> : e \in entries' }
                    = { <<KeyOf(e), e.amount>> : e \in entries }]_vars

\* two runs of a workbook with one actuals element: two transactions that
\* differ in their ids only
C2_Witness ==
    /\ last.op = "import_budget_and_transactions" /\ last.exc = "none"
    /\ last.ret.transaction_count = 1
    /\ Cardinality(transactions) = 2
    /\ \A t, u \in transactions : [t EXCEPT !.id = u.id] = u

\* C3: a successful import inserts one transaction per element of every
\* actuals list and no other: amount the element, category the mapped id,
\* date the first day of the list's month in the parsed year, payee the
\* import payee; transaction_count is the number of rows inserted.
C3_OneTransactionPerElement ==
    [][ImportOK =>
          /\ transactions \subseteq transactions'
          /\ NewTransactionsAre(Len(Elements))
          /\ last'.ret.transaction_count = Cardinality(NewTransactions)
          /\ \A t \in NewTransactions :
                 \E p \in payees' :
                     p.name = ImportPayeeName /\ t.payee_id = p.id]_vars

\* an import of a cell that bundles two amounts left two transactions
C3_Witness ==
    /\ last.op = "import_budget_and_transactions" /\ last.exc = "none"
    /\ last.ret.transaction_count = 2
    /\ \E i \in DOMAIN Cats : \E m \in DOMAIN Cats[i].actuals :
           Len(Cats[i].actuals[m]) = 2
    /\ Cardinality(transactions) = 2

\* the categories the import touched: those that received an entry or a
\* transaction
Touched == { Target(i) : i \in DOMAIN Cats }

InTemplate(T, c) == \E t \in T : t.year = ParsedYear /\ t.category_id = c

\* C4: after a successful import every touched category has a template
\* membership for the year, no membership is duplicated, and template_count
\* is the number of touched categories that had none before the call.
C4_TemplateCount ==
    [][ImportOK =>
          /\ \A c \in Touched : InTemplate(templates', c)
          /\ \A t, u \in templates' :
                 (t.year = u.year /\ t.category_id = u.category_id
                    /\ (t \in templates \/ u \in templates)) => t = u
          /\ last'.ret.template_count
               = Cardinality({ c \in Touched : ~InTemplate(templates, c) })]_vars

\* C5 (store): at most one payee carries the import name, and it is Generic
C5_OneImportPayee ==
    /\ Cardinality(ImportPayees) <= 1
    /\ \A p \in ImportPayees : p.type = "Generic"

\* C5 (step): the call creates the payee when there is none, returns the
\* one there is without creating another, and an import's transactions all
\* carry that payee's id
C5_EnsureStep ==
    /\ (last'.op = "ensure_import_payee" /\ last'.exc # "OperationalError") =>
          /\ last'.exc = "none"
          /\ IF ImportPayees # {}
             THEN /\ payees' = payees
                  /\ \A p \in ImportPayees : last'.ret.payee_id = p.id
             ELSE \E p \in payees' :
                      /\ p.name = ImportPayeeName /\ p.type = "Generic"
                      /\ payees' = payees \cup {p}
                      /\ last'.ret.payee_id = p.id
    /\ ImportRan =>
          /\ ImportPayees # {} => payees' = payees
          /\ \A t \in NewTransactions : t.payee_id = last'.ret.payee_id
          /\ NewTransactions # {} =>
                 \E p \in payees' :
                     p.name = ImportPayeeName /\ p.id = last'.ret.payee_id

\* C5: after any sequence of _ensure_import_payee calls and imports at most
\* one payee named "Import - Google Sheets" exists; the first call creates
\* it with type Generic, a later call returns its id without creating
\* another, and the transactions of one import carry one payee id.
C5_ImportPayeeIdempotent ==
    []C5_OneImportPayee /\ [][C5_EnsureStep]_vars

\* a later _ensure_import_payee call: the payee and its transactions were there
C5_Witness ==
    /\ last.op = "ensure_import_payee" /\ last.exc = "none"
    /\ \E p \in ImportPayees : last.ret.payee_id = p.id
    /\ Cardinality(transactions) = 2
    /\ \A t \in transactions : t.payee_id = last.ret.payee_id

\* the first sheet category the mapping does not name
FirstUnmapped ==
    CHOOSE i \in DOMAIN Cats : ~Mapped(i) /\ \A j \in 1..(i - 1) : Mapped(j)

\* C6: an import that fails at a storage call or at the mapping lookup hands
\* the failure to its caller and leaves in the store what it wrote before
\* the failing step: nothing is rolled back and nothing is written twice.
C6_FailureLeavesPrefix ==
    [][ImportFailed =>
          /\ last'.exc \in {"KeyError", "IntegrityError", "OperationalError"}
          /\ categories' = categories
          /\ payees \subseteq payees'
          /\ templates \subseteq templates'
          /\ transactions \subseteq transactions'
          /\ NewTransactionsAre(last'.ret.transaction_count)
          /\ FiguresUpserted(last'.ret.budget_count)
          /\ last'.exc = "KeyError" =>
                 /\ \E i \in DOMAIN Cats : ~Mapped(i)
                 /\ last'.ret.budget_count
                      = Cardinality({ k \in DOMAIN Figures :
                                        Figures[k][1] < FirstUnmapped })
                 /\ last'.ret.transaction_count
                      = Cardinality({ k \in DOMAIN Elements :
                                        Elements[k][1] < FirstUnmapped })]_vars

\* an import failed after it had written an entry and a transaction, and
\* both are in the store
C6_Witness ==
    /\ last.op = "import_budget_and_transactions" /\ last.exc # "none"
    /\ last.ret.budget_count = 1 /\ last.ret.transaction_count = 1
    /\ Cardinality(entries) = 1 /\ Cardinality(transactions) = 1

\* C7: validate_import never writes: whatever it reports, the five tables
\* are after the call what they were before it.
C7_ValidateNeverWrites ==
    [][last'.op = "validate_import" => tables' = tables]_vars

\* a validation that reported errors over a store that holds imported rows
C7_Witness ==
    /\ last.op = "validate_import"
    /\ ~last.ret.valid
    /\ entries # {} /\ transactions # {}

\* C8: validate_import returns valid exactly when it returns no error;
\* warnings do not bear on valid.
C8_ValidIffNoErrors ==
    last.op = "validate_import" =>
        (last.ret.valid <=> last.ret.errors = <<>>)

\* a validation that is valid and warns
C8_Witness ==
    /\ last.op = "validate_import"
    /\ last.ret.valid
    /\ last.ret.warnings # <<>>

\* what the checks of validate_import find for sheet category i
FailKind(i) ==
    IF ~Mapped(i) THEN "not mapped"
    ELSE IF ~\E c \in categories : c.id = Target(i) THEN "does not exist"
    ELSE IF \E c \in categories : c.id = Target(i) /\ c.type # Cats[i].type
    THEN "type mismatch"
    ELSE "ok"

Failing == { i \in DOMAIN Cats : FailKind(i) # "ok" }
Passing == { i \in DOMAIN Cats : FailKind(i) = "ok" }

StoredName(c) == (CHOOSE x \in categories : x.id = c).name

\* C9: the errors of validate_import are one entry per failing sheet
\* category, in sheet order, the first failing check deciding the entry; a
\* failing category adds no warning and no count, and the categories after
\* it are validated all the same.
C9_ErrorsAccumulate ==
    last.op = "validate_import" =>
        /\ Len(last.ret.errors) = Cardinality(Failing)
        /\ \A i \in Failing :
               last.ret.errors[Cardinality({ j \in Failing : j <= i })]
                 = [kind |-> FailKind(i), name |-> Cats[i].name]
        /\ last.ret.budget_count
             = Cardinality({ k \in DOMAIN Figures : Figures[k][1] \in Passing })
        /\ last.ret.transaction_count
             = Cardinality({ k \in DOMAIN Elements : Elements[k][1] \in Passing })
        /\ \A k \in DOMAIN last.ret.warnings :
               \E i \in Passing :
                   /\ last.ret.warnings[k].name = StoredName(Target(i))
                   /\ last.ret.warnings[k].month \in DOMAIN Cats[i].budget

\* a validation whose first category failed a check and whose second passed
\* and was counted
C9_Witness ==
    /\ last.op = "validate_import"
    /\ Len(Cats) = 2 /\ 1 \in Failing /\ 2 \in Passing
    /\ Len(last.ret.errors) = 1
    /\ last.ret.budget_count + last.ret.transaction_count > 0

\* the figures of passing categories whose key holds an entry
Overwritten ==
    { k \in DOMAIN Figures :
        /\ Figures[k][1] \in Passing
        /\ \E e \in entries : KeyOf(e) = FigureKey(Figures[k]) }

\* C10: validate_import warns of an overwrite exactly for the budget figures
\* of passing categories whose (mapped category id, parsed year, month) holds
\* an entry: one warning per such figure, in sheet order, none for a free key.
C10_OverwriteWarnings ==
    last.op = "validate_import" =>
        /\ Len(last.ret.warnings) = Cardinality(Overwritten)
        /\ \A k \in Overwritten :
               last.ret.warnings[Cardinality({ j \in Overwritten : j <= k })]
                 = [name  |-> StoredName(Target(Figures[k][1])),
                    year  |-> ParsedYear,
                    month |-> Figures[k][2]]

\* a validation of two figures, one at a key that holds an entry and one at
\* a free key: one warning
C10_Witness ==
    /\ last.op = "validate_import"
    /\ Len(Figures) = 2 /\ Passing = DOMAIN Cats
    /\ Len(last.ret.warnings) = 1

\* C11: the summary of validate_import counts what an import would write:
\* budget_count the budget months and transaction_count the bundled amounts
\* of the categories that pass the three checks; when every category passes
\* and the store holds no budget entry, the result is valid without errors
\* or warnings and the counts are the totals of the whole workbook.
C11_SummaryCounts ==
    last.op = "validate_import" =>
        /\ last.ret.budget_count
             = Cardinality({ <<i, m>> \in Passing \X Months :
                               m \in DOMAIN Cats[i].budget })
        /\ last.ret.transaction_count
             = Cardinality({ <<i, m, j>> \in Passing \X Months \X (1..MaxBundle) :
                               /\ m \in DOMAIN Cats[i].actuals
                               /\ j \in DOMAIN Cats[i].actuals[m] })
        /\ (Failing = {} /\ entries = {}) =>
               /\ last.ret.valid
               /\ last.ret.errors = <<>>
               /\ last.ret.warnings = <<>>
               /\ last.ret.budget_count = Len(Figures)
               /\ last.ret.transaction_count = Len(Elements)

\* a validation of a consistent mapping over a store without budget entries,
\* of a workbook with a budget month and a cell that bundles two amounts
C11_Witness ==
    /\ last.op = "validate_import"
    /\ Failing = {} /\ entries = {}
    /\ last.ret.valid
    /\ last.ret.budget_count = 1 /\ last.ret.transaction_count = 2

\* C12: an import that follows a validation reported valid writes against the
\* state the validation read, whatever was served in between: every budget
\* entry it overwrites is named in a warning of the report, and every
\* category the validation found is still stored.
C12_ValidateSnapshotHolds ==
    [][(ImportRan /\ validated.valid) =>
          /\ \A e \in entries :
                 (\E k \in 1..last'.ret.budget_count :
                      KeyOf(e) = FigureKey(Figures[k]))
                   => \E w \in validated.warned :
                          /\ \E c \in categories :
                                 c.id = e.category_id /\ c.name = w.name
                          /\ w.year = e.year /\ w.month = e.month
          /\ \A c \in validated.found : \E x \in categories : x.id = c]_vars

\* ------------------------------------------------- properties: cell reader
\* the reader has read the cell
Called == extracted # NotExtracted

Returned == Called /\ extracted.exc = "none"

\* the cell holds a sum of numbers none of which is below zero
NonNegativeSum ==
    /\ written.sum
    /\ \A i \in DOMAIN written.addends : written.addends[i].tenths >= 0

\* the written addends with their decimals cut off, the blank ones left out
RECURSIVE Truncated(_)
Truncated(addends) ==
    IF addends = <<>> THEN <<>>
    ELSE IF Head(addends).blank THEN Truncated(Tail(addends))
    ELSE <<Head(addends).tenths \div 10>> \o Truncated(Tail(addends))

WithoutParentheses(text) ==
    LET Kept(c) == c \notin {"(", ")"} IN SelectSeq(text, Kept)

\* C13: for a cell that holds an addition-only formula of non-negative numbers
\* (with or without a leading "=", grouped by parentheses in any way) the
\* reader returns one integer per non-empty segment, left to right, each the
\* segment's value with its decimals cut off, and it returns the same for the
\* text with every parenthesis removed.
C13_AdditionFormula ==
    (Called /\ NonNegativeSum) =>
        /\ extracted.exc = "none"
        /\ extracted.amounts = Truncated(written.addends)
        /\ extracted =
             extract_amounts_from_formula(
                 [none |-> FALSE, text |-> WithoutParentheses(cell_value.text)],
                 row_num, col_name)

\* "=((1+12)+2.5)" has been read as [1, 12, 2]
C13_Witness ==
    /\ Called /\ NonNegativeSum
    /\ cell_value.text =
         <<"=", "(", "(", "1", "+", "1", "2", ")", "+", "2", ".", "5", ")">>
    /\ extracted.amounts = <<1, 12, 2>>

RECURSIVE SumOf(_)
SumOf(amounts) ==
    IF amounts = <<>> THEN 0 ELSE Head(amounts) + SumOf(Tail(amounts))

\* the sum the cell writes, in tenths
RECURSIVE WrittenTenths(_)
WrittenTenths(addends) ==
    IF addends = <<>> THEN 0
    ELSE Head(addends).tenths + WrittenTenths(Tail(addends))

Whole(addend) == addend.tenths % 10 = 0

\* C14 as stated: for a cell that holds an addition-only formula of
\* non-negative numbers, integer or decimal, the sum of the returned list is
\* the sum of the addends as the cell writes them.
C14_SumAsWritten ==
    (Called /\ NonNegativeSum) =>
        /\ extracted.exc = "none"
        /\ 10 * SumOf(extracted.amounts) = WrittenTenths(written.addends)

\* C14: for a cell that holds an addition-only formula of non-negative
\* numbers the sum of the returned list is the sum of the addends each with
\* its decimals cut off: the written sum when every addend is a whole number,
\* and below it, by less than one per addend, when some addend has decimals.
C14_SumOfTruncated ==
    (Called /\ NonNegativeSum) =>
        LET addends == written.addends
            got     == 10 * SumOf(extracted.amounts)
        IN  /\ extracted.exc = "none"
            /\ SumOf(extracted.amounts) = SumOf(Truncated(addends))
            /\ got <= WrittenTenths(addends)
            /\ WrittenTenths(addends) - got < 10 * Len(addends) \/ addends = <<>>
            /\ (\A i \in DOMAIN addends : Whole(addends[i]))
                   <=> got = WrittenTenths(addends)

\* "2.5+2.5", which writes 5, has been read as [2, 2]
C14_Witness ==
    /\ Called /\ NonNegativeSum
    /\ cell_value.text = <<"2", ".", "5", "+", "2", ".", "5">>
    /\ WrittenTenths(written.addends) = 50
    /\ SumOf(extracted.amounts) = 4

\* the cell holds a sum of numbers and one of them is below zero
NegativeAddend ==
    /\ written.sum
    /\ \E i \in DOMAIN written.addends : written.addends[i].tenths < 0

\* C15: a cell of numbers joined by "+" (no forbidden function or operator in
\* it) in which some segment is a number below zero, integer or decimal, in
\* any position, fails with "Negative value not allowed" and returns no list.
C15_NegativeRejected ==
    (Called /\ NegativeAddend) =>
        /\ extracted.exc = "Negative value not allowed"
        /\ extracted.amounts = <<>>

\* the text of the cell without a leading "=" and without parentheses
\* (surrounding blanks do not count)
RECURSIVE Bare(_)
Bare(text) ==
    IF text # <<>> /\ Head(text) = " " THEN Bare(Tail(text))
    ELSE IF text # <<>> /\ text[Len(text)] = " "
    THEN Bare(SubSeq(text, 1, Len(text) - 1))
    ELSE WithoutParentheses(IF text # <<>> /\ Head(text) = "="
                            THEN Tail(text) ELSE text)

Occurs(word, text) ==
    \E i \in 1..Len(text) :
        /\ i + Len(word) - 1 <= Len(text)
        /\ \A k \in 1..Len(word) : text[i + k - 1] = word[k]

\* the function names that occur in the cell
FunctionsIn(text) ==
    { forbidden[i].item : i \in { j \in DOMAIN forbidden :
        forbidden[j].item \in FunctionNames /\ Occurs(forbidden[j].chars, Bare(text)) } }

HasOperator(text) == Occurs(<<"*">>, text) \/ Occurs(<<"/">>, text)

AtCell == extracted.row = row_num /\ extracted.col = col_name

\* C16: a cell whose text (without a leading "=" and parentheses) holds one of
\* the function names IF, SUM, AVERAGE, COUNT, MIN, MAX fails with "Complex
\* formula not supported", naming a function that is in the text; a cell that
\* holds "*" or "/" and no function name fails with "Only addition (+)
\* supported". Both errors carry the cell's row and column and no amounts.
C16_ForbiddenRejected ==
    (Called /\ ~cell_value.none) =>
        /\ FunctionsIn(cell_value.text) # {} =>
              /\ extracted.exc = "Complex formula not supported"
              /\ extracted.detail \in FunctionsIn(cell_value.text)
              /\ AtCell /\ extracted.amounts = <<>>
        /\ (FunctionsIn(cell_value.text) = {} /\ HasOperator(cell_value.text)) =>
              /\ extracted.exc = "Only addition (+) supported"
              /\ AtCell /\ extracted.amounts = <<>>

\* "MAX*SUM" has been refused for its function SUM, and not for its "*"
C16_Witness ==
    /\ Called
    /\ cell_value.text = <<"M", "A", "X", "*", "S", "U", "M">>
    /\ extracted.exc = "Complex formula not supported"
    /\ extracted.detail = "SUM"
    /\ extracted.row = 11 /\ extracted.col = "D"

\* "=1*1" has been refused for its operator
C16_WitnessOperator ==
    /\ Called
    /\ cell_value.text = <<"=", "1", "*", "1">>
    /\ extracted.exc = "Only addition (+) supported"
    /\ extracted.row = 10 /\ extracted.col = "C"

ForbiddenToken(text) == FunctionsIn(text) # {} \/ HasOperator(text)

ForbiddenError ==
    extracted.exc \in {"Complex formula not supported",
                       "Only addition (+) supported"}

\* the segments of the cell, left to right
Segments(text) == split(Bare(text), "+")

\* a segment that is left out or gives an amount
Fine(part) ==
    strip(part) = <<>> \/ (float(strip(part)).ok /\ int(float(strip(part))) >= 0)

Unparsable(part) == strip(part) # <<>> /\ ~float(strip(part)).ok

BelowZero(part) ==
    strip(part) # <<>> /\ float(strip(part)).ok /\ int(float(strip(part))) < 0

\* the first segment from the left that gives no amount, 0 if there is none
FirstBad(parts) ==
    IF \A k \in DOMAIN parts : Fine(parts[k]) THEN 0
    ELSE CHOOSE k \in DOMAIN parts :
             ~Fine(parts[k]) /\ \A j \in 1..(k - 1) : Fine(parts[j])

\* C17: the reader scans the whole text for forbidden functions and operators
\* first and checks the segments after, from the left. A cell with a forbidden
\* function or operator fails with that error whatever its segments are; the
\* negative-value error comes only for a cell that passes the scan and whose
\* first segment that gives no amount is the negative one, and the
\* number-format error only when that segment is unparsable.
C17_CheckOrder ==
    (Called /\ ~cell_value.none /\ strip(cell_value.text) # <<>>) =>
        LET text  == cell_value.text
            parts == Segments(text)
            bad   == FirstBad(parts)
        IN  /\ ForbiddenToken(text) <=> ForbiddenError
            /\ extracted.exc = "Negative value not allowed"
                  <=> (~ForbiddenToken(text) /\ bad # 0 /\ BelowZero(parts[bad]))
            /\ extracted.exc = "Invalid number format"
                  <=> (~ForbiddenToken(text) /\ bad # 0 /\ Unparsable(parts[bad]))
            /\ extracted.exc = "none" <=> (~ForbiddenToken(text) /\ bad = 0)

\* "-1+*", a negative segment, an unparsable one and an operator, has been
\* refused for the operator
C17_Witness ==
    /\ Called
    /\ cell_value.text = <<"-", "1", "+", "*">>
    /\ BelowZero(Segments(cell_value.text)[1])
    /\ extracted.exc = "Only addition (+) supported"

\* "x+-1" has been refused for its first segment, not for the negative one
C17_WitnessLeft ==
    /\ Called
    /\ cell_value.text = <<"x", "+", "-", "1">>
    /\ extracted.exc = "Invalid number format"

\* the written addends that are not blank
Written(addends) == LET Kept(a) == ~a.blank IN SelectSeq(addends, Kept)

\* the cell holds no data: None, the empty string, or blanks only
NoData == cell_value.none \/ \A i \in DOMAIN cell_value.text : cell_value.text[i] = " "

\* C18: the reader tells no data from zero. None, the empty string and a
\* string of blanks give the empty list; "0", with or without a leading "=",
\* gives [0]; and a zero segment of a longer formula stays in the list at its
\* position.
C18_ZeroIsData ==
    Called =>
        /\ NoData => (extracted.exc = "none" /\ extracted.amounts = <<>>)
        /\ cell_value.text \in { <<"0">>, <<"=", "0">> } =>
              (extracted.exc = "none" /\ extracted.amounts = <<0>>)
        /\ NonNegativeSum =>
              LET addends == Written(written.addends)
              IN  /\ Len(extracted.amounts) = Len(addends)
                  /\ \A k \in DOMAIN addends :
                         addends[k].tenths = 0 => extracted.amounts[k] = 0

\* "=0+1+0" has been read as [0, 1, 0]
C18_Witness ==
    /\ Called /\ NonNegativeSum
    /\ cell_value.text = <<"=", "0", "+", "1", "+", "0">>
    /\ extracted.amounts = <<0, 1, 0>>

\* None has been read as the empty list
C18_WitnessNone ==
    /\ Called /\ cell_value.none
    /\ extracted.exc = "none" /\ extracted.amounts = <<>>

\* "0" has been read as [0]
C18_WitnessZero ==
    /\ Called /\ cell_value.text = <<"0">> /\ ~cell_value.none
    /\ extracted.amounts = <<0>>

\* ------------------------------------------------------ properties: parser
Parsed == parse_result # NotParsed

ParsedOK == Parsed /\ parse_result.exc = "none"

AllMonths == 1..12

\* the categories of the parse result that came from block i
ParsedFrom(i) ==
    { parse_result.sheet_categories[k] :
        k \in { j \in DOMAIN parse_result.sheet_categories :
                   parse_result.sheet_categories[j].name = i } }

\* the cell of block i in the budget or actuals row under the month's column
MonthCell(i, which, month) ==
    LET cells == IF which = "budget" THEN workbook.blocks[i].budget
                 ELSE workbook.blocks[i].actuals
        col   == month_columns(workbook.layout)[month]
    IN  IF col \in DOMAIN cells THEN cells[col] ELSE EmptyCell

\* what the reader makes of that cell
ReadOf(i, which, month) ==
    extract_amounts_from_formula(value(MonthCell(i, which, month)), 0, "")

\* the cell is read and gives amounts
GivesAmounts(i, which, month) ==
    /\ truthy(MonthCell(i, which, month))
    /\ ReadOf(i, which, month).exc = "none"
    /\ ReadOf(i, which, month).amounts # <<>>

MonthKeys ==
    \A k \in DOMAIN parse_result.sheet_categories :
        /\ DOMAIN parse_result.sheet_categories[k].budget \subseteq AllMonths
        /\ DOMAIN parse_result.sheet_categories[k].actuals \subseteq AllMonths

ActualsListed ==
    \A i \in DOMAIN workbook.blocks, month \in AllMonths :
        GivesAmounts(i, "actuals", month) =>
            \E c \in ParsedFrom(i) :
                /\ month \in DOMAIN c.actuals
                /\ c.actuals[month] = ReadOf(i, "actuals", month).amounts

KeepsBudget(i, month) ==
    /\ GivesAmounts(i, "budget", month)
    /\ \/ workbook.layout = "original"
       \/ SumOf(ReadOf(i, "budget", month).amounts) # 0

FormulaErrors ==
    {"Complex formula not supported", "Only addition (+) supported",
     "Negative value not allowed", "Invalid number format"}

\* the reader refuses the cell of block i under the month's column
Refused(i, which, month) ==
    /\ truthy(MonthCell(i, which, month))
    /\ ReadOf(i, which, month).exc \in FormulaErrors

RowOfCell(i, which) ==
    IF which = "budget"
    THEN BudgetRow(workbook.layout, CategoryRow(workbook.layout, i))
    ELSE ActualsRow(workbook.layout, CategoryRow(workbook.layout, i))

\* the parse failed for the cell of block i under the month's column
FailedAt(i, which, month) ==
    /\ parse_result.exc = ReadOf(i, which, month).exc
    /\ parse_result.category = workbook.blocks[i].name
    /\ parse_result.row = RowOfCell(i, which)
    /\ parse_result.col = month_columns(workbook.layout)[month]
    /\ parse_result.sheet_categories = <<>>

\* C20 as stated: one bad cell fails the whole parse. If a month cell of the
\* budget row or of the actuals row of a category holds a value the reader
\* refuses, the parse raises an error with the row and column of a refused
\* cell and returns no category at all.
C20_AnyBadCellFails ==
    Parsed =>
        \A i \in DOMAIN workbook.blocks, month \in AllMonths,
           which \in {"budget", "actuals"} :
            Refused(i, which, month) =>
                \E j \in DOMAIN workbook.blocks, m \in AllMonths,
                   w \in {"budget", "actuals"} :
                    Refused(j, w, m) /\ FailedAt(j, w, m)

\* the refused actuals cells before this one in the order of the scan
Earlier(i, month) ==
    { p \in (DOMAIN workbook.blocks) \X AllMonths :
        /\ Refused(p[1], "actuals", p[2])
        /\ p[1] < i \/ (p[1] = i /\ p[2] < month) }

\* C20: one bad cell of an actuals row fails the whole parse: the parse raises
\* the reader's error for the first refused actuals cell of the scan, with its
\* category, row and column, and returns no category at all. A refused cell of
\* a budget row fails nothing: the cell is skipped, its month gets no budget
\* figure, and the parse goes on.
C20_BadActualsCellFails ==
    Parsed =>
        /\ \A i \in DOMAIN workbook.blocks, month \in AllMonths :
               (Refused(i, "actuals", month) /\ Earlier(i, month) = {})
                   => FailedAt(i, "actuals", month)
        /\ parse_result.exc \in FormulaErrors =>
               \E i \in DOMAIN workbook.blocks, month \in AllMonths :
                   Refused(i, "actuals", month) /\ FailedAt(i, "actuals", month)
        /\ ParsedOK =>
               \A i \in DOMAIN workbook.blocks, month \in AllMonths :
                   Refused(i, "budget", month) =>
                       \A c \in ParsedFrom(i) : month \notin DOMAIN c.budget

\* a workbook with "=2+1" in an actuals cell of its first category and
\* "=1*1" in an actuals cell of its second has been refused as a whole
C20_Witness ==
    /\ Parsed
    /\ GivesAmounts(1, "actuals", 1)
    /\ Refused(2, "actuals", 12)
    /\ parse_result.exc = "Only addition (+) supported"
    /\ parse_result.category = 2
    /\ parse_result.col = month_columns(workbook.layout)[12]
    /\ parse_result.sheet_categories = <<>>

\* a workbook with "=1*1" in a budget cell and "=2+1" in an actuals cell of
\* the same category has been parsed, the budget cell left out
C20_WitnessBudget ==
    /\ ParsedOK
    /\ Refused(1, "budget", 1)
    /\ GivesAmounts(1, "actuals", 1)
    /\ Len(parse_result.sheet_categories) = 1
    /\ parse_result.sheet_categories[1].budget = <<>>
    /\ parse_result.sheet_categories[1].actuals = (1 :> <<2, 1>>)

\* block i gives the category data: a budget figure the layout keeps, or
\* actuals
HasData(i) ==
    \E month \in AllMonths :
        KeepsBudget(i, month) \/ GivesAmounts(i, "actuals", month)

NoRefusedActuals ==
    \A i \in DOMAIN workbook.blocks, month \in AllMonths :
        ~Refused(i, "actuals", month)

\* C21: every category of a parse result has a budget month or an actuals
\* month: a category with neither is dropped without an error, the others
\* are kept in the order of the scan. The result never has an empty list of
\* categories: when the scan leaves none, the parse fails with "No categories
\* found".
C21_CategoriesHaveData ==
    Parsed =>
        /\ ParsedOK =>
              /\ parse_result.sheet_categories # <<>>
              /\ \A k \in DOMAIN parse_result.sheet_categories :
                    LET c == parse_result.sheet_categories[k]
                    IN  DOMAIN c.budget # {} \/ DOMAIN c.actuals # {}
              /\ \A i \in DOMAIN workbook.blocks :
                    HasData(i) <=> ParsedFrom(i) # {}
        /\ parse_result.exc = "No categories found"
              <=> (NoRefusedActuals /\ \A i \in DOMAIN workbook.blocks : ~HasData(i))

\* a workbook whose first category has no cell filled and whose second has a
\* budget figure has been parsed: the result holds the second category only
C21_Witness ==
    /\ ParsedOK
    /\ ~HasData(1) /\ HasData(2)
    /\ Len(parse_result.sheet_categories) = 1
    /\ parse_result.sheet_categories[1].name = 2
    /\ DOMAIN parse_result.sheet_categories[1].budget # {}

\* a workbook with no cell filled has been refused: "No categories found"
C21_WitnessNone ==
    /\ Parsed
    /\ \A i \in DOMAIN workbook.blocks : ~HasData(i)
    /\ parse_result.exc = "No categories found"

\* --------------------------------------------------- properties: sections
Scanned == sections # NotScanned /\ sections.exc = "none"

FirstMarker == IF sections.utgifter_row < sections.inntekter_row
               THEN sections.utgifter_row ELSE sections.inntekter_row

\* the located marker nearest above the row: the greater of the two that
\* are above it
MarkerAbove(r) ==
    LET above == { m \in {sections.utgifter_row, sections.inntekter_row} : m < r }
    IN  CHOOSE m \in above : \A n \in above : n <= m

ValidatedOK == last.op = "validate_import" /\ last.ret.valid

\* C23: the dry run predicts the execution. When validate_import has returned
\* valid and import_budget_and_transactions runs next, on the same workbook,
\* mapping and store, and returns, the budget_count and transaction_count it
\* returns are the counts of validate's summary.
C23_DryRunPredicts ==
    [][(/\ ValidatedOK
        /\ last'.op = "import_budget_and_transactions"
        /\ last'.exc = "none")
         => /\ last'.ret.budget_count = last.ret.budget_count
            /\ last'.ret.transaction_count = last.ret.transaction_count]_vars

\* an import of one budget figure and one actual amount has returned the
\* counts 1 and 1, the counts validate_import gives the workbook
C23_Witness ==
    /\ last.op = "import_budget_and_transactions" /\ last.exc = "none"
    /\ last.ret.budget_count = 1
    /\ last.ret.transaction_count = 1
    /\ LET v == validate_import(Store, parsed_data, category_mapping).ret
       IN  /\ v.valid
           /\ v.summary.budget_count = 1
           /\ v.summary.transaction_count = 1

\* -------------------------------------------- properties: zero in a budget
\* the budget row of block i as a row of either layout: the cell of each
\* month under that layout's column for the month
RowUnder(columns, i) ==
    [c \in { columns[m] : m \in AllMonths } |->
        MonthCell(i, "budget", CHOOSE m \in AllMonths : columns[m] = c)]

HovedarkBudget(i) == hovedark_budget(RowUnder(HovedarkColumns, i), 1, 1)
OriginalBudget(i) == original_budget(RowUnder(OriginalColumns, i), 1, 1)

\* the budget cell of the month gives amounts that sum to zero
ZeroBudget(i, month) ==
    /\ GivesAmounts(i, "budget", month)
    /\ SumOf(ReadOf(i, "budget", month).amounts) = 0

\* C24 as stated: zero is a budget amount like any other in both layouts. A
\* budget cell whose amounts sum to zero gives budget[month] = 0, so its
\* category counts as having budget data, and the two routines give the same
\* budget map for the same row of cell values.
C24_ZeroBudgetKept ==
    Parsed =>
        \A i \in DOMAIN workbook.blocks :
            /\ HovedarkBudget(i) = OriginalBudget(i)
            /\ \A month \in AllMonths :
                  ZeroBudget(i, month) =>
                      /\ month \in DOMAIN HovedarkBudget(i)
                      /\ HovedarkBudget(i)[month] = 0
                      /\ ParsedOK => ParsedFrom(i) # {}

\* What the code does on a budget of zero (C24): the layouts differ. For the
\* same row of cell values the Hovedark routine gives the budget map of the original-layout
\* routine without its months of sum zero: the original routine stores
\* budget[month] = 0 for a formula that sums to zero and its category counts
\* as having budget data, the Hovedark routine stores nothing for it, and a
\* Hovedark category with no other data is dropped. A cell that holds the
\* number 0 is read by neither.
ZeroBudgetByLayout ==
    Parsed =>
        \A i \in DOMAIN workbook.blocks :
          LET h == HovedarkBudget(i)
              o == OriginalBudget(i)
          IN  /\ DOMAIN h = { m \in DOMAIN o : o[m] # 0 }
              /\ \A m \in DOMAIN h : h[m] = o[m]
              /\ \A month \in AllMonths :
                    /\ ZeroBudget(i, month) =>
                          (month \in DOMAIN o /\ o[month] = 0)
                    /\ MonthCell(i, "budget", month).kind = "number"
                        /\ MonthCell(i, "budget", month).text = <<"0">>
                          => month \notin DOMAIN o
              /\ (ParsedOK /\ ~HasData(i)) => ParsedFrom(i) = {}
              /\ (ParsedOK /\ workbook.layout = "original"
                     /\ \E month \in AllMonths : ZeroBudget(i, month))
                    => ParsedFrom(i) # {}

\* a Hovedark workbook whose first category holds "=0" in January's budget
\* cell and nothing else has been parsed: the category is not in the result;
\* the original-layout routine gives the same row the budget {1: 0}
ZeroBudgetDropped ==
    /\ ParsedOK
    /\ workbook.layout = "hovedark"
    /\ ZeroBudget(1, 1)
    /\ ParsedFrom(1) = {}
    /\ HovedarkBudget(1) = <<>>
    /\ OriginalBudget(1) = (1 :> 0)

\* ------------------------------------------ properties: execute_with_retry
Finished == retry.pc \in {"returned", "raised"}

\* the operation raised OperationalError at each of its calls before this one
FailedBefore(call) ==
    \A j \in 1..(call - 1) : retry.outcomes[j] = "OperationalError"

\* C25: execute_with_retry always terminates after at most MAX_RETRIES (3)
\* calls of the operation. It returns the result of the first call that
\* succeeds and calls no more; it calls again, after a reconnect, only when
\* the call raised OperationalError; another exception is raised again after
\* that one call; after three OperationalErrors it raises the last one.
C25_RetryTerminates ==
    /\ <>Finished
    /\ [](/\ retry.calls <= MAX_RETRIES
          /\ retry.pc = "try" => retry.attempt < MAX_RETRIES
          /\ retry.calls > 0 =>
                /\ FailedBefore(retry.calls)
                /\ retry.reconnects >= retry.attempt
                /\ retry.slept = retry.attempt * RETRY_DELAY
          /\ Finished =>
                LET call == retry.calls
                    exc  == retry.outcomes[call]
                IN  /\ retry.pc = "returned" <=> exc = "ok"
                    /\ retry.pc = "returned" => retry.returned = call
                    /\ retry.pc = "raised" => retry.raised = call
                    /\ exc = "OperationalError" => call = MAX_RETRIES)

\* the operation failed twice with OperationalError and succeeded at its
\* third call, whose result was returned after two reconnects
C25_Witness ==
    /\ retry.pc = "returned"
    /\ retry.outcomes = <<"OperationalError", "OperationalError", "ok">>
    /\ retry.returned = 3
    /\ retry.reconnects >= 2

\* three OperationalErrors: the third is raised
C25_WitnessExhausted ==
    /\ retry.pc = "raised"
    /\ retry.outcomes = <<"OperationalError", "OperationalError",
                          "OperationalError">>
    /\ retry.raised = 3

\* another exception at the second call is raised without a third call
C25_WitnessReraised ==
    /\ retry.pc = "raised"
    /\ retry.outcomes[1] = "OperationalError"
    /\ retry.outcomes[2] = "IntegrityError"
    /\ retry.calls = 2 /\ retry.raised = 2

\* ------------------------------------------------- properties: the ledger
\* every row that names a category or a payee names a stored one
NoDangling ==
    /\ \A t \in templates : category_exists(Store, t.category_id)
    /\ \A e \in entries : category_exists(Store, e.category_id)
    /\ \A t \in transactions :
          /\ category_exists(Store, t.category_id)
          /\ t.payee_id # NoPayee => get_payee_by_id(Store, t.payee_id) # {}

CategoryReferenced(category_id) ==
    \/ \E t \in templates : t.category_id = category_id
    \/ \E e \in entries : e.category_id = category_id
    \/ \E t \in transactions : t.category_id = category_id

PayeeReferenced(payee_id) == \E t \in transactions : t.payee_id = payee_id

\* delete_category and delete_payee, called now for a row that is referenced,
\* raise and leave the store as it is
DeleteRefused ==
    /\ \A c \in categories :
          CategoryReferenced(c.id) =>
              /\ delete_category(Store, c.id).exc = "ValueError"
              /\ delete_category(Store, c.id).store = Store
    /\ \A q \in payees :
          PayeeReferenced(q.id) =>
              /\ delete_payee(Store, q.id).exc = "ValueError"
              /\ delete_payee(Store, q.id).store = Store

\* no call takes away a row that is referenced, and a delete that raised
\* changed nothing
ReferencedKept ==
    /\ \A c \in categories :
          CategoryReferenced(c.id) => category_exists(Store', c.id)
    /\ \A q \in payees :
          PayeeReferenced(q.id) => get_payee_by_id(Store', q.id) # {}
    /\ (last'.op \in {"delete_category", "delete_payee"}
           /\ last'.exc # "none") => Store' = Store

\* C28: no dangling references. After any sequence of business-logic calls
\* (categories and payees created, renamed, deleted; template memberships
\* added, removed, copied; budget entries saved, deleted; transactions
\* created, updated, deleted; imports) every template row, budget entry and
\* transaction names a stored category and every transaction with a payee
\* names a stored payee; delete_category and delete_payee fail and leave the
\* store unchanged while the row is referenced.
C28_NoDanglingReferences ==
    /\ [](NoDangling /\ DeleteRefused)
    /\ [][ReferencedKept]_vars

\* delete_category has just been refused: both categories are stored and
\* each is named by a row, one of them by a transaction that has a payee
C28_Witness ==
    /\ last.op = "delete_category" /\ last.exc = "ValueError"
    /\ { c.id : c \in categories } = LedgerCategoryIds
    /\ \A c \in categories : CategoryReferenced(c.id)
    /\ \E t \in transactions : t.payee_id # NoPayee

\* delete_payee has just been refused for the only payee, which the import
\* created and a transaction names
C28_WitnessPayee ==
    /\ last.op = "delete_payee" /\ last.exc = "ValueError"
    /\ Cardinality(payees) = 1
    /\ \A q \in payees : q.name = ImportPayeeName /\ PayeeReferenced(q.id)

\* ---------------------------------------- properties: copy_budget_template
\* the categories that are members of the year's template in the store s
Members(s, year) == { t.category_id : t \in { u \in s.templates : u.year = year } }

\* copy_budget_template has just returned
Copied == last'.op = "copy_budget_template" /\ last'.exc = "none"

\* C26: copy_budget_template(from_year, to_year) with two valid years adds to
\* the target year exactly the source-year categories that were not members
\* yet: afterwards the target template is its previous membership united
\* with the source membership, no membership is duplicated or removed,
\* copied_count is the number of memberships newly created, and a second
\* call with the same years at once returns copied_count 0 and changes
\* nothing.
C26_CopyAddsMissing ==
    [][Copied =>
         LET from_year == last'.ret.from_year
             to_year   == last'.ret.to_year
             again     == copy_budget_template(Store', from_year, to_year)
         IN  /\ validate_year(from_year) /\ validate_year(to_year)
             /\ Members(Store', to_year) =
                    Members(Store, to_year) \cup Members(Store, from_year)
             /\ templates \subseteq templates'
             /\ \A t \in templates' \ templates : t.year = to_year
             /\ \A t, u \in templates' :
                    (t.year = u.year /\ t.category_id = u.category_id) => t = u
             /\ last'.ret.copied_count = Cardinality(templates' \ templates)
             /\ last'.ret.copied_count =
                    Cardinality(Members(Store, from_year)
                                    \ Members(Store, to_year))
             /\ again.exc = "none"
             /\ again.copied_count = 0
             /\ again.store = Store']_vars

\* a copy has just added one category to a year that had another: the
\* source year has both stored categories, the target year had one of them,
\* and now has both
C26_Witness ==
    /\ last.op = "copy_budget_template" /\ last.exc = "none"
    /\ last.ret.from_year = ImportYear /\ last.ret.to_year = ImportYear + 1
    /\ last.ret.copied_count = 1
    /\ Members(Store, ImportYear) = {1, 2}
    /\ Members(Store, ImportYear + 1) = {1, 2}
    /\ Cardinality(templates) = 4

\* ------------------------------------ properties: entries and memberships
\* C29: every budget entry belongs to an active category of its year. In
\* every state reached by completed calls of save_budget_entry,
\* delete_budget_entry, add_category_to_template,
\* remove_category_from_template, copy_budget_template and
\* import_budget_and_transactions (whether the import succeeded or failed
\* part-way), each stored budget entry (category, year, month) has a
\* template membership for (year, category).
C29_EntryHasMembership ==
    \A e \in entries : budget_template_exists(Store, e.year, e.category_id)

\* ---------------------------------- properties: calculate_category_trends
TrendsReturned == trends.exc = "none"

\* the year before has data to compare with at all
PreviousYear == validate_year(trends.year - 1)

\* the arrow compares two values that are both data: never None, "right" for
\* equal values, "up" from zero and "down" to zero
Compared(trend, current_value, previous_value) ==
    /\ trend # NoArrow
    /\ current_value = previous_value => trend.arrow = "right"
    /\ (previous_value = 0 /\ current_value > 0) => trend.arrow = "up"
    /\ (current_value = 0 /\ previous_value > 0) => trend.arrow = "down"

\* the arrow of a figure that is data in both years is a comparison; without
\* data in one of them it is None
ArrowFor(trend, current_value, previous_value) ==
    IF current_value.none \/ previous_value.none \/ ~PreviousYear
    THEN trend = NoArrow
    ELSE Compared(trend, current_value.value, previous_value.value)

MonthlyBudgetArrows ==
    \A m \in TrendMonths :
        ArrowFor(trends.months[m].budget,
                 budget_amount_or_none(trends.current_budget, m),
                 budget_amount_or_none(trends.previous_budget, m))

MonthlyActualArrows ==
    \A m \in TrendMonths :
        ArrowFor(trends.months[m].actual,
                 actual_amount(trends.current_transactions, m),
                 actual_amount(trends.previous_transactions, m))

TotalArrows ==
    /\ ArrowFor(trends.total.budget, budget_total(trends.current_budget),
                budget_total(trends.previous_budget))
    /\ ArrowFor(trends.total.actual, actual_total(trends.current_transactions),
                actual_total(trends.previous_transactions))

\* C27: calculate_category_trends gives no arrow (None) for the budget or
\* the actual of a month, and of the yearly total, whenever the current year
\* or the previous year has no data for it (no budget entry, respectively no
\* transaction); a stored amount of 0 counts as data and is compared like
\* any other value.
C27_NoArrowWithoutData ==
    TrendsReturned =>
        MonthlyBudgetArrows /\ MonthlyActualArrows /\ TotalArrows

\* what holds of the code: the arrows of the monthly actuals and of the two
\* totals are as C27 says, and the monthly budget arrow is the one of a
\* comparison in which a month without an entry stands as 0
ArrowsAsComputed ==
    TrendsReturned =>
        /\ MonthlyActualArrows /\ TotalArrows
        /\ PreviousYear =>
              \A m \in TrendMonths :
                  Compared(trends.months[m].budget,
                           budget_amount(trends.current_budget, m).value,
                           budget_amount(trends.previous_budget, m).value)

\* a month with a budget entry of 20 last year and none this year has been
\* given a "down" arrow
ArrowWithoutEntry ==
    /\ TrendsReturned
    /\ MIN_MONTH \notin DOMAIN trends.current_budget
    /\ MIN_MONTH \in DOMAIN trends.previous_budget
    /\ trends.previous_budget[MIN_MONTH] = 20
    /\ trends.months[MIN_MONTH].budget.arrow = "down"

\* ------------------------------------ properties: the configuration cache
AnsweredFromCache ==
    /\ config.op = "get_all_configuration" /\ config.exc = "none"
    /\ config.from_cache

\* C30: the configuration cache is never stale with respect to writes made
\* through this module. Whenever get_all_configuration answers from the
\* cache, the mapping it returns equals the configuration stored at that
\* moment, for every sequence of get_all_configuration and
\* update_configuration calls, including update_configuration calls over
\* several keys that fail after some keys were written; and changing the
\* returned mapping does not change what later calls return.
C30_CacheNeverStale ==
    /\ [](AnsweredFromCache => config.returned = config.stored)
    /\ [][config'.op = "caller" =>
             /\ config'.cache = config.cache
             /\ config'.stored = config.stored]_vars

\* what holds of the code: an answer from the cache is the stored
\* configuration unless an update has failed after writing a key since the
\* cache was loaded, and the caller's changes never reach the cache
CacheFreshUnlessUpdateFailed ==
    /\ [](AnsweredFromCache /\ ~config.partial
             => config.returned = config.stored)
    /\ [][config'.op = "caller" =>
             /\ config'.cache = config.cache
             /\ config'.stored = config.stored]_vars

\* get_all_configuration has answered from the cache with a currency the
\* table no longer holds
StaleAnswer ==
    /\ AnsweredFromCache
    /\ config.returned["currency_format"] = "nok"
    /\ config.stored["currency_format"] = "usd"

====
